---- MODULE Spec2Model ----
(***************************************************************************)
(* Model of the change-detection and sync engine of yugioh-db:             *)
(*   card.py              Content Verifier and Entity Synchronizer         *)
(*   download_session.py  Batch Orchestrator                               *)
(*   meta.py              Run Ledger                                       *)
(* The module holds several specifications over one set of variables; a    *)
(* specification leaves the variables of the other parts unchanged.        *)
(*   SpecVerify    verify_image_with_range_request as a pure function      *)
(*   SpecImage     one artifact, __download_image_async step by step       *)
(*   SpecSync      the mirror of one entity and the calls of Card.sync     *)
(*   SpecRepair    an intact mirror, a signature file of which is removed  *)
(*   SpecDamage    an intact mirror, a file of which is damaged            *)
(*   SpecSchedule  __should_do_full_verification on ledgers and clocks     *)
(*   SpecLedger    the operations of Meta on every kind of ledger file     *)
(*   Spec          the runs of DownloadSession.start                       *)
(*   SpecRun       one run on ledgers that hold a checkpoint               *)
(*   SpecSample    one run on listings of 9, 11 and 240 cards              *)
(***************************************************************************)
EXTENDS Integers, Sequences, FiniteSets, TLC

VARIABLES
    \* ---- SpecVerify: one call of verify_image_with_range_request
    v_pc,        \* "call" before the call, "returned" after it
    v_local,     \* the file at local_path
    v_hash,      \* the file at hash_path
    v_remote,    \* the bytes the remote serves at url
    v_force,     \* force_full_check
    v_resp,      \* what session.get(url, Range) does in this call
    v_result,    \* the value returned (or the exception raised)
    \* ---- SpecImage: one artifact and the calls of __download_image_async
    f_img,       \* the file at image_path
    f_hash,      \* the file at image_path + ".hash"
    f_tmp,       \* the file at image_path + ".tmp"
    f_hashtmp,   \* the file at image_path + ".hash.tmp"
    d_remote,    \* the bytes the remote serves at image_url
    d_pc,        \* position of the call in flight, "idle" when none is
    d_force,     \* force_full_check of the call
    d_content,   \* content, the body read by the call
    d_ret,       \* how the last call ended: "none", "true", "false",
                 \* "raised" (verification raised) or "killed"
    d_written,   \* some call has completed a write of the artifact
    d_before,    \* the four files as the last call found them
    \* ---- SpecSync: the mirror of one entity and the calls of Card.sync
    m_info,      \* identity -> the file <path>/<id>/info.json
    m_img,       \* <<identity, role>> -> the file images/<role>.jpg
    m_hash,      \* <<identity, role>> -> the file images/<role>.jpg.hash
    s_ids,       \* the ids of the entity's card_images
    s_payload,   \* the entity's payload as the catalog serves it
    s_remote,    \* <<identity, role>> -> the bytes behind the image url
    s_pc,        \* "idle", or "running" while a call of sync is in flight
    s_force,     \* force_full_check of the call
    s_json,      \* self.__json of the Card of the call
    s_info,      \* info_task: "pending", "true", "false" or "raised"
    s_idsLeft,   \* identities download_images_async has still to await
    s_rolesLeft, \* image tasks of the current identity still in flight
    s_idSaved,   \* any(results) so far, for the current identity
    s_image,     \* any(...) so far, over the identities done
    s_imgRaised, \* an image task of the call raised
    s_ret,       \* how the last call ended: "none", "true", "false", "raised"
    s_calls,     \* number of calls of sync begun
    s_wrote,     \* the call has written a file of the mirror
    s_rangeOk,   \* every range request of the call was honoured
    s_dlOk,      \* every full download of the call succeeded
    s_prev,      \* the call before this one: how it ended, its flag, its
                 \* s_rangeOk and s_dlOk, and whether the remote stayed as it
                 \* was from its beginning to the beginning of this call
    s_quiet,     \* the remote has not changed since this call began
    s_faults,    \* network faults so far
    s_changes,   \* remote changes so far
    s_removed,   \* the signature file removed from the mirror, and the
                 \* number of calls begun when it was removed
    s_fetched,   \* the artifacts the call has asked for with a full GET
    s_written,   \* the artifacts whose image file the call has replaced
    \* ---- SpecSchedule and Spec: the Run Ledger and the clock
    store,       \* the ledger file meta.json
    now,         \* datetime.now(), in clock units
    q_pc,        \* SpecSchedule: "call" before the call, "returned" after
    q_forced,    \* SpecSchedule: the value __should_do_full_verification gave
    \* ---- SpecLedger: the operations of Meta, one at a time
    l_op,        \* the last operation of Meta that ran ("none" before any)
    l_before,    \* the ledger file as that operation found it
    l_raised,    \* that operation raised
    l_ret,       \* what it returned: a digest, a date or a checkpoint
    l_ops,       \* number of operations run
    \* ---- Spec: the runs of DownloadSession.start
    catalog,     \* the listing the catalog API serves: the cards, in order
    settings,    \* the settings dict of the DownloadSession
    r_pc,        \* position of the run: "idle" (none in flight), "fetch",
                 \* "decide", "sample", "full" (head of the batch loop),
                 \* "batch" (tasks in flight), "record"
    card_info,   \* self.__card_info (<<>> while None)
    api_response_hash,  \* self.__api_response_hash
    api_unchanged,      \* self.__api_unchanged
    r_force,     \* force_full_check of start
    start_time,  \* start_time of start
    sample_left, \* sample, the list random.sample drew, less the cards the
                 \* loop of __verify_sample_cards has taken
    sync_force,  \* card -> the force_full_check it was given, for the calls
                 \* of Card.sync in flight
    r_i,         \* i, the variable of the batch loop: cards before the batch
    tasks,       \* card of the batch -> "waiting" (for the semaphore),
                 \* "running" (in Card.sync), "updated", "same" or "failed"
    semaphore,   \* the value of the asyncio.Semaphore
    updated_cards,      \* updated_cards / all_updated_cards
    total_processed,    \* total_processed
    full_hash_checks,   \* full_hash_checks
    r_runs,      \* number of runs begun
    r_path,      \* the path of the run: "none", "sample" or "full"
    r_end,       \* how the last run ended: "none", "recorded",
                 \* "fetch_failed", "entity_raised" or "ledger_raised"
    r_started,   \* the cards of the run whose Card.sync has begun
    r_finished,  \* the cards of the run whose Card.sync has returned or raised
    r_failed     \* the cards of the run whose Card.sync raised

verifyVars == <<v_pc, v_local, v_hash, v_remote, v_force, v_resp, v_result>>

imageFiles == <<f_img, f_hash, f_tmp, f_hashtmp>>
imageVars == <<f_img, f_hash, f_tmp, f_hashtmp, d_remote, d_pc, d_force,
               d_content, d_ret, d_written, d_before>>

mirrorFiles == <<m_info, m_img, m_hash>>
syncVars == <<m_info, m_img, m_hash, s_ids, s_payload, s_remote, s_pc, s_force,
              s_json, s_info, s_idsLeft, s_rolesLeft, s_idSaved, s_image,
              s_imgRaised, s_ret, s_calls, s_wrote, s_rangeOk, s_dlOk, s_prev,
              s_quiet, s_faults, s_changes, s_removed, s_fetched, s_written>>

ledgerVars == <<store, now>>
scheduleVars == <<q_pc, q_forced>>
metaVars == <<l_op, l_before, l_raised, l_ret, l_ops>>

runVars == <<catalog, settings, r_pc, card_info, api_response_hash,
             api_unchanged, r_force, start_time, sample_left, r_i, tasks,
             semaphore, updated_cards, total_processed, full_hash_checks,
             r_runs, r_path, r_end, r_started, r_finished, r_failed,
             sync_force>>

vars == <<verifyVars, imageVars, syncVars, ledgerVars, scheduleVars, metaVars,
          runVars>>

\* What a step of one specification leaves alone: the other parts.
verifyRest == <<imageVars, syncVars, ledgerVars, scheduleVars, metaVars, runVars>>
imageRest == <<verifyVars, syncVars, ledgerVars, scheduleVars, metaVars, runVars>>
syncRest == <<verifyVars, imageVars, ledgerVars, scheduleVars, metaVars, runVars>>
scheduleRest == <<verifyVars, imageVars, syncVars, metaVars, runVars>>
metaRest == <<verifyVars, imageVars, syncVars, scheduleVars, runVars>>
runRest == <<verifyVars, imageVars, syncVars, scheduleVars, metaVars>>

----------------------------------------------------------------------------
(* Bytes, files and digests *)

\* Length of the longest byte string of the model.
MaxLen == 3

\* Number of bytes the fast path asks for (Range: bytes=0-8191 in the source,
\* scaled to the byte strings of the model).
RangeBytes == 2

Bytes == {0, 1}

Contents == UNION {[1..n -> Bytes] : n \in 0..MaxLen}

Min(a, b) == IF a < b THEN a ELSE b

\* f.read(byte_count): at most byte_count bytes from the start of the file.
ReadBytes(data, byte_count) == SubSeq(data, 1, Min(byte_count, Len(data)))

\* hashlib.sha256(data).hexdigest(): a digest, distinct for distinct data and
\* distinct from every text that is no digest.
sha256(data) == <<256>> \o data

\* A signature file's text that is the digest of nothing.
Garbage == <<>>

\* A file of the local mirror: absent, present and readable, or present but
\* failing on open/read.  data is the file's bytes (a signature file's text
\* after strip()).
NoFile == [state |-> "absent", data |-> <<>>]
Unreadable == [state |-> "unreadable", data |-> <<>>]
File(data) == [state |-> "ok", data |-> data]

\* os.path.exists(path)
exists(f) == f.state # "absent"

compute_file_hash(f) == sha256(f.data)

compute_partial_hash(f, byte_count) == sha256(ReadBytes(f.data, byte_count))

----------------------------------------------------------------------------
(* Content Verifier: verify_image_with_range_request *)

\* What one HTTP GET does: raise, or answer with a status and a body.
Raised == [raised |-> TRUE, status |-> 0, body |-> <<>>]
Response(status, body) == [raised |-> FALSE, status |-> status, body |-> body]

\* The value of one call: the pair (needs_download, verified_full), whether
\* the call raised instead of returning, and the number of network requests
\* it issued.
Ret(needs_download, verified_full, requests) ==
    [needs_download |-> needs_download, verified_full |-> verified_full,
     raised |-> FALSE, requests |-> requests]
Raise(requests) ==
    [needs_download |-> FALSE, verified_full |-> FALSE,
     raised |-> TRUE, requests |-> requests]

----------------------------------------------------------------------------
(* The entity of SpecSync and its mirror *)

\* The ids an entity's image descriptors can carry, and the three image
\* roles of download_images_async_for_id.
Ids == {1, 2}
Roles == {"full", "small", "cropped"}
Artifacts == Ids \X Roles

\* A payload is <<id, rest>>: the id field and the other fields.
\* json.dump writes a JSON text, json.load parses one or raises.
JsonText(doc) == <<123>> \o doc
Parsable(text) == Len(text) > 0 /\ text[1] = 123
JsonLoad(text) == Tail(text)

NoPrev == [ret |-> "none", force |-> FALSE, rangeOk |-> TRUE, dlOk |-> TRUE,
           quiet |-> TRUE]

\* No signature file has been removed.
NoRemoval == [artifact |-> <<0, "none">>, at |-> 0]

----------------------------------------------------------------------------
(* Run Ledger: meta.py *)

\* Clock units per day: times are whole numbers of units.
UnitsPerDay == 2

\* days_since >= 28 in __should_do_full_verification.
FullVerificationDays == 28

\* A triggered_time that datetime.fromisoformat cannot turn into a date that
\* can be subtracted from datetime.now(), and an entry with no triggered_time.
BadTime == 0 - 1
NoTime == 0 - 2

\* No digest: get_last_api_hash returning None, or an entry without the key
\* api_response_hash.
NoHash == <<>>

\* One entry of the audit log: the fields of Meta.update that the program
\* reads back (completed_time, time_taken and the list updated_cards are
\* written and never read).  Entries written before the fields existed have
\* api_response_hash = NoHash and full_hash_verifications = 0, the values
\* entry.get gives for a missing key.
Entry(time, processed, found, updated, hash, unchanged, checks) ==
    [triggered_time |-> time, cards_processed |-> processed,
     cards_found |-> found, cards_updated |-> updated,
     api_response_hash |-> hash, api_unchanged |-> unchanged,
     full_hash_verifications |-> checks]

NoResume == [set |-> FALSE, last_processed_index |-> 0, api_hash_at_resume |-> NoHash]

\* The ledger file: absent; not JSON ("invalid"); JSON that is neither an
\* object nor an array ("scalar"); an object without audit_log ("object");
\* the legacy array of entries ("list"); {resume_state, audit_log} ("dict").
Store(kind, resume, log) == [kind |-> kind, resume |-> resume, log |-> log]
AbsentStore == Store("absent", NoResume, <<>>)
InvalidStore == Store("invalid", NoResume, <<>>)
ScalarStore == Store("scalar", NoResume, <<>>)
ObjectStore == Store("object", NoResume, <<>>)
ListStore(log) == Store("list", NoResume, log)
DictStore(resume, log) == Store("dict", resume, log)

\* Mutant: the migration keeps the newest entry only.
ensure_new_format_last_only(st) ==
    IF st.kind = "list"
    THEN DictStore(NoResume, IF st.log = <<>> THEN <<>>
                             ELSE <<st.log[Len(st.log)]>>)
    ELSE st

\* Meta._ensure_new_format, run by every Meta(): the file it leaves.
ensure_new_format(st) ==
    IF st.kind = "list" THEN DictStore(NoResume, st.log) ELSE st

\* Meta.get_last_api_hash
get_last_api_hash(st) ==
    IF st.kind \in {"dict", "list"} /\ Len(st.log) > 0
    THEN st.log[Len(st.log)].api_response_hash
    ELSE NoHash

\* Mutant: any entry with full-hash checks counts, sampled runs included.
qualifies_any_checks(entry) ==
    entry.full_hash_verifications > 0

\* The test of the loop of get_last_full_verification_date.
qualifies(entry) ==
    /\ entry.full_hash_verifications > 0
    /\ entry.cards_processed = entry.cards_found

\* Meta.get_last_full_verification_date: the triggered_time of the last
\* qualifying entry; None when there is none, when the file does not hold a
\* log, or when that entry has no triggered_time (the KeyError is caught).
NoDate == [found |-> FALSE, time |-> NoTime]
get_last_full_verification_date(st) ==
    IF st.kind \notin {"dict", "list"} THEN NoDate
    ELSE LET hits == {i \in 1..Len(st.log) : qualifies(st.log[i])}
         IN  IF hits = {} THEN NoDate
             ELSE LET last == CHOOSE i \in hits : \A j \in hits : j <= i
                  IN  IF st.log[last].triggered_time = NoTime THEN NoDate
                      ELSE [found |-> TRUE, time |-> st.log[last].triggered_time]

\* Mutant: the boundary is one day late.
should_verify_after_28(st, t) ==
    LET last_full_check == get_last_full_verification_date(ensure_new_format(st))
    IN  IF ~last_full_check.found THEN TRUE
        ELSE IF last_full_check.time = BadTime THEN TRUE
        ELSE ((t - last_full_check.time) \div UnitsPerDay) > FullVerificationDays

\* DownloadSession.__should_do_full_verification at clock time t.
should_do_full_verification(st, t) ==
    LET last_full_check == get_last_full_verification_date(ensure_new_format(st))
    IN  IF ~last_full_check.found THEN TRUE                \* never done before
        ELSE IF last_full_check.time = BadTime THEN TRUE   \* except Exception
        ELSE ((t - last_full_check.time) \div UnitsPerDay) >= FullVerificationDays

\* Meta.get_resume_state: the value of the key resume_state of an object.
get_resume_state(st) ==
    IF st.kind \in {"dict", "object"} THEN st.resume ELSE NoResume

\* A checkpoint as save_resume_state writes it (target_updates,
\* updates_found and session_started are written and never read).
Resume(index, api_hash) ==
    [set |-> TRUE, last_processed_index |-> index, api_hash_at_resume |-> api_hash]

\* Meta.save_resume_state: the file it leaves.  An absent file counts as an
\* empty ledger, an array is upgraded; a file that does not parse, or that
\* holds a scalar, makes the body raise, which is caught and printed.
save_resume_state(st, index, api_hash) ==
    IF st.kind = "absent" THEN DictStore(Resume(index, api_hash), <<>>)
    ELSE IF st.kind \in {"list", "dict"}
    THEN DictStore(Resume(index, api_hash), st.log)
    ELSE IF st.kind = "object"
    THEN Store("object", Resume(index, api_hash), <<>>)
    ELSE st

\* Meta.clear_resume_state: the file it leaves.  Nothing is written for an
\* absent file or when the body raises.
clear_resume_state(st) ==
    IF st.kind \in {"list", "dict"} THEN DictStore(NoResume, st.log)
    ELSE IF st.kind = "object" THEN Store("object", NoResume, <<>>)
    ELSE st

\* Mutant: the file is rewritten with a fresh checkpoint slot.
update_resets_checkpoint(st, entry) ==
    IF st.kind = "scalar" THEN [store |-> st, raised |-> TRUE]
    ELSE IF st.kind \in {"absent", "invalid"}
    THEN [store |-> DictStore(NoResume, <<entry>>), raised |-> FALSE]
    ELSE [store |-> DictStore(NoResume, Append(st.log, entry)), raised |-> FALSE]

\* Meta.update: Meta() migrates a legacy file, then the entry is appended to
\* what the file holds (an absent or invalid file counts as empty) and the
\* file is written.  A file that holds JSON other than an object or an array
\* makes "'audit_log' not in data" raise, and nothing catches it.
update(st, entry) ==
    LET data == ensure_new_format(st)
    IN  IF data.kind = "scalar" THEN [store |-> data, raised |-> TRUE]
        ELSE IF data.kind \in {"absent", "invalid"}
        THEN [store |-> DictStore(NoResume, <<entry>>), raised |-> FALSE]
        ELSE [store |-> DictStore(data.resume, Append(data.log, entry)),
              raised |-> FALSE]

----------------------------------------------------------------------------
(* The variables of each part at rest, as the other specifications keep them *)

VerifyIdle ==
    /\ v_pc = "returned" /\ v_local = NoFile /\ v_hash = NoFile
    /\ v_remote = <<>> /\ v_force = FALSE /\ v_resp = Raised
    /\ v_result = Ret(FALSE, FALSE, 0)

\* The files of one artifact, all absent.
NoFiles == [img |-> NoFile, hashf |-> NoFile, tmp |-> NoFile, hashtmp |-> NoFile]

ImageIdle ==
    /\ f_img = NoFile /\ f_hash = NoFile /\ f_tmp = NoFile /\ f_hashtmp = NoFile
    /\ d_remote = <<>> /\ d_pc = "idle" /\ d_force = FALSE
    /\ d_content = <<>> /\ d_ret = "none" /\ d_written = FALSE
    /\ d_before = NoFiles

SyncIdle ==
    /\ m_info = [i \in Ids |-> NoFile]
    /\ m_img = [a \in Artifacts |-> NoFile]
    /\ m_hash = [a \in Artifacts |-> NoFile]
    /\ s_ids = {} /\ s_payload = <<1, 1>>
    /\ s_remote = [a \in Artifacts |-> <<>>]
    /\ s_pc = "idle" /\ s_force = FALSE /\ s_json = <<1, 1>>
    /\ s_info = "pending" /\ s_idsLeft = <<>> /\ s_rolesLeft = {}
    /\ s_idSaved = FALSE /\ s_image = FALSE /\ s_imgRaised = FALSE
    /\ s_ret = "none" /\ s_calls = 0 /\ s_wrote = FALSE
    /\ s_rangeOk = TRUE /\ s_dlOk = TRUE /\ s_prev = NoPrev
    /\ s_quiet = TRUE /\ s_faults = 0 /\ s_changes = 0
    /\ s_removed = NoRemoval /\ s_fetched = {} /\ s_written = {}

LedgerIdle == store = AbsentStore /\ now = 0

ScheduleIdle == q_pc = "returned" /\ q_forced = FALSE

\* What an operation of Meta returns: get_last_api_hash a digest,
\* get_last_full_verification_date a date, get_resume_state a checkpoint;
\* the others None.
Returned(hash, date, resume) == [hash |-> hash, date |-> date, resume |-> resume]
ReturnedNone == Returned(NoHash, NoDate, NoResume)

MetaIdle ==
    /\ l_op = "none" /\ l_before = AbsentStore /\ l_raised = FALSE
    /\ l_ret = ReturnedNone /\ l_ops = 0

\* A key the settings dict does not hold.
NotSet == 0 - 1

RunIdle ==
    /\ catalog = <<>>
    /\ settings = [batch_size |-> NotSet, concurrent_operations |-> NotSet,
                   download_count |-> NotSet]
    /\ r_pc = "idle" /\ card_info = <<>> /\ api_response_hash = NoHash
    /\ api_unchanged = FALSE /\ r_force = FALSE /\ start_time = 0
    /\ sample_left = <<>> /\ sync_force = <<>>
    /\ r_i = 0 /\ tasks = <<>> /\ semaphore = 0
    /\ updated_cards = <<>> /\ total_processed = 0 /\ full_hash_checks = 0
    /\ r_runs = 0 /\ r_path = "none" /\ r_end = "none"
    /\ r_started = {} /\ r_finished = {} /\ r_failed = {}

----------------------------------------------------------------------------
(* verify_image_with_range_request and its mutants *)

\* Mutant: the forced check compares the stored digest with the remote's.
verify_forced_remote(local, hashf, force_full_check, resp, remote) ==
    IF ~(exists(local) /\ exists(hashf)) THEN Ret(TRUE, FALSE, 0)
    ELSE IF hashf.state = "unreadable" THEN Ret(TRUE, FALSE, 0)
    ELSE IF force_full_check
         THEN Ret(sha256(remote) # hashf.data, TRUE, 1)
    ELSE IF resp.raised \/ resp.status \notin {200, 206} THEN Ret(TRUE, FALSE, 1)
    ELSE IF local.state = "unreadable" THEN Raise(1)
    ELSE Ret(sha256(resp.body) # compute_partial_hash(local, Len(resp.body)),
             FALSE, 1)

\* Mutant: a failed or refused range request is taken as "unchanged".
verify_fail_closed(local, hashf, force_full_check, resp, remote) ==
    IF ~(exists(local) /\ exists(hashf)) THEN Ret(TRUE, FALSE, 0)
    ELSE IF hashf.state = "unreadable" THEN Ret(TRUE, FALSE, 0)
    ELSE IF force_full_check
         THEN IF local.state = "unreadable" THEN Raise(0)
              ELSE Ret(compute_file_hash(local) # hashf.data, TRUE, 0)
    ELSE IF resp.raised \/ resp.status \notin {200, 206} THEN Ret(FALSE, FALSE, 1)
    ELSE IF local.state = "unreadable" THEN Raise(1)
    ELSE Ret(sha256(resp.body) # compute_partial_hash(local, Len(resp.body)),
             FALSE, 1)

\* Mutant: the fast path compares the body with the whole local file.
verify_whole_file(local, hashf, force_full_check, resp, remote) ==
    IF ~(exists(local) /\ exists(hashf)) THEN Ret(TRUE, FALSE, 0)
    ELSE IF hashf.state = "unreadable" THEN Ret(TRUE, FALSE, 0)
    ELSE IF force_full_check
         THEN IF local.state = "unreadable" THEN Raise(0)
              ELSE Ret(compute_file_hash(local) # hashf.data, TRUE, 0)
    ELSE IF resp.raised \/ resp.status \notin {200, 206} THEN Ret(TRUE, FALSE, 1)
    ELSE IF local.state = "unreadable" THEN Raise(1)
    ELSE Ret(sha256(resp.body) # compute_file_hash(local), FALSE, 1)

\* Mutant: only the image is looked for; without a signature file the
\* image counts as unchanged.
verify_image_only(local, hashf, force_full_check, resp, remote) ==
    IF ~exists(local) THEN Ret(TRUE, FALSE, 0)
    ELSE IF ~exists(hashf) THEN Ret(FALSE, FALSE, 0)
    ELSE IF hashf.state = "unreadable" THEN Ret(TRUE, FALSE, 0)
    ELSE IF force_full_check
         THEN IF local.state = "unreadable" THEN Raise(0)
              ELSE Ret(compute_file_hash(local) # hashf.data, TRUE, 0)
    ELSE IF resp.raised \/ resp.status \notin {200, 206} THEN Ret(TRUE, FALSE, 1)
    ELSE IF local.state = "unreadable" THEN Raise(1)
    ELSE Ret(sha256(resp.body) # compute_partial_hash(local, Len(resp.body)),
             FALSE, 1)

\* Mutant: without a forced check the range request is issued before the
\* files are looked for.
verify_request_first(local, hashf, force_full_check, resp, remote) ==
    IF ~(exists(local) /\ exists(hashf))
    THEN Ret(TRUE, FALSE, IF force_full_check THEN 0 ELSE 1)
    ELSE IF hashf.state = "unreadable" THEN Ret(TRUE, FALSE, 0)
    ELSE IF force_full_check
         THEN IF local.state = "unreadable" THEN Raise(0)
              ELSE Ret(compute_file_hash(local) # hashf.data, TRUE, 0)
    ELSE IF resp.raised \/ resp.status \notin {200, 206} THEN Ret(TRUE, FALSE, 1)
    ELSE IF local.state = "unreadable" THEN Raise(1)
    ELSE Ret(sha256(resp.body) # compute_partial_hash(local, Len(resp.body)),
             FALSE, 1)

\* verify_image_with_range_request(session, url, local_path, hash_path,
\* force_full_check).  resp is what the range request of this call does;
\* remote, the bytes behind url, is read by nothing but that request.
verify_image_with_range_request(local, hashf, force_full_check, resp, remote) ==
    \* both image and hash must exist
    IF ~(exists(local) /\ exists(hashf)) THEN Ret(TRUE, FALSE, 0)
    \* read stored hash; except Exception: re-download
    ELSE IF hashf.state = "unreadable" THEN Ret(TRUE, FALSE, 0)
    \* periodic full verification: the LOCAL file against the stored hash
    ELSE IF force_full_check
         THEN IF local.state = "unreadable" THEN Raise(0)
              ELSE IF compute_file_hash(local) # hashf.data
                   THEN Ret(TRUE, TRUE, 0)
                   ELSE Ret(FALSE, TRUE, 0)
    \* fast path: range request for the first bytes
    ELSE IF resp.raised THEN Ret(TRUE, FALSE, 1)
    ELSE IF resp.status \notin {200, 206} THEN Ret(TRUE, FALSE, 1)
    \* compare partial hash (outside the try: a failing read propagates)
    ELSE IF local.state = "unreadable" THEN Raise(1)
    ELSE IF sha256(resp.body) # compute_partial_hash(local, Len(resp.body))
         THEN Ret(TRUE, FALSE, 1)
         ELSE Ret(FALSE, FALSE, 1)

\* The statuses a GET is answered with in the model.
Statuses == {200, 206, 404}

\* The bodies a GET for remote can carry: the honoured range, the whole
\* content (Range ignored), a truncated or empty body, or bytes that are not
\* the remote's at all.
Flip(data) == [i \in 1..Len(data) |-> IF i = 1 THEN 1 - data[i] ELSE data[i]]
Bodies(remote) ==
    {ReadBytes(remote, k) : k \in 0..Len(remote)} \cup {Flip(remote)}

Responses(remote) ==
    {Raised} \cup {Response(s, b) : s \in Statuses, b \in Bodies(remote)}

\* The range request honoured: 200 or 206 carrying the first bytes of remote.
RangeHonoured(resp, remote) ==
    /\ ~resp.raised
    /\ resp.status \in {200, 206}
    /\ resp.body = ReadBytes(remote, RangeBytes)

LocalFiles == {NoFile, Unreadable} \cup {File(c) : c \in Contents}

\* Signature files: absent, unreadable, or holding the digest of the local
\* content, the digest of the remote content, or no digest at all.
HashFiles(local, remote) ==
    {NoFile, Unreadable, File(sha256(local.data)), File(sha256(remote)),
     File(Garbage)}

VerifyInit ==
    /\ v_pc = "call"
    /\ v_local \in LocalFiles
    /\ v_remote \in Contents
    /\ v_hash \in HashFiles(v_local, v_remote)
    /\ v_force \in BOOLEAN
    /\ v_resp \in Responses(v_remote)
    /\ v_result = Ret(FALSE, FALSE, 0)
    /\ ImageIdle /\ SyncIdle /\ LedgerIdle /\ ScheduleIdle /\ MetaIdle
    /\ RunIdle

VerifyCall ==
    /\ v_pc = "call"
    /\ v_pc' = "returned"
    /\ v_result' = verify_image_with_range_request(
                       v_local, v_hash, v_force, v_resp, v_remote)
    /\ UNCHANGED <<v_local, v_hash, v_remote, v_force, v_resp>>
    /\ UNCHANGED verifyRest

SpecVerify == VerifyInit /\ [][VerifyCall]_vars

----------------------------------------------------------------------------
(* Claims about the Content Verifier, checked under SpecVerify *)

SamePrefix(a, b) == ReadBytes(a, RangeBytes) = ReadBytes(b, RangeBytes)

C5_RangeFailureMustFetch ==
    (/\ v_pc = "returned" /\ ~v_force
     /\ exists(v_local) /\ exists(v_hash)
     /\ (v_resp.raised \/ v_resp.status \notin {200, 206}))
        => /\ ~v_result.raised
           /\ v_result.needs_download
           /\ ~v_result.verified_full

\* C5 witness: an up-to-date artifact whose range request failed.
C5_Witness ==
    /\ v_pc = "returned" /\ ~v_force
    /\ v_local = File(v_remote) /\ v_hash = File(sha256(v_remote))
    /\ (v_resp.raised \/ v_resp.status = 404)
    /\ v_result = Ret(TRUE, FALSE, 1)

\* The case of C6: equal first RangeBytes bytes, different bytes beyond them.
C6_Case ==
    /\ v_pc = "returned" /\ ~v_force
    /\ v_local.state = "ok" /\ v_hash.state = "ok"
    /\ SamePrefix(v_remote, v_local.data)
    /\ v_remote # v_local.data

\* C6 as stated: in that case the result is (unchanged, not fully verified)
\* whatever the range request did.
C6_AlwaysUnchanged ==
    C6_Case => v_result = Ret(FALSE, FALSE, 1)

\* C6 amended: in that case, when the range request is answered with 200 or
\* 206 and a body that holds at most the first RangeBytes bytes of the remote
\* content, the result is (unchanged, not fully verified).
C6_UnchangedWhenRangeAnswered ==
    (/\ C6_Case
     /\ ~v_resp.raised /\ v_resp.status \in {200, 206}
     /\ \E k \in 0..RangeBytes : v_resp.body = ReadBytes(v_remote, k))
        => v_result = Ret(FALSE, FALSE, 1)

\* C6 witness: the honoured range of a remote that differs beyond the range.
C6_Witness ==
    /\ C6_Case
    /\ Len(v_remote) > RangeBytes /\ Len(v_local.data) > RangeBytes
    /\ RangeHonoured(v_resp, v_remote)
    /\ v_result = Ret(FALSE, FALSE, 1)

\* C23: when the local content file or its signature file is absent the
\* verifier returns (must-fetch, not fully verified) and issues no request,
\* with force_full_check set or not.
C23_AbsentMustFetchNoRequest ==
    (v_pc = "returned" /\ (~exists(v_local) \/ ~exists(v_hash)))
        => v_result = Ret(TRUE, FALSE, 0)

\* C23 witness: the content file is there, its signature file is not, and
\* the check is not forced.
C23_Witness ==
    /\ v_pc = "returned" /\ ~v_force
    /\ v_local.state = "ok" /\ v_hash = NoFile
    /\ RangeHonoured(v_resp, v_remote)
    /\ v_result = Ret(TRUE, FALSE, 0)

\* C27: whenever the fast path returns "unchanged", the first RangeBytes
\* bytes of the remote content are those of the local file; an empty body,
\* or one shorter than the first RangeBytes bytes of the local file, is not
\* judged unchanged.
C27_UnchangedMeansSamePrefix ==
    (/\ v_pc = "returned" /\ ~v_force
     /\ v_local.state = "ok" /\ v_hash.state = "ok"
     /\ v_result = Ret(FALSE, FALSE, 1))
        => /\ SamePrefix(v_remote, v_local.data)
           /\ Len(v_resp.body) >= Len(ReadBytes(v_local.data, RangeBytes))

----------------------------------------------------------------------------
(* Entity Synchronizer, one artifact: Card.__download_image_async, step by  *)
(* step.  Every file operation of the call is one step; a step of the try   *)
(* block can raise instead (the except handler then runs as part of that    *)
(* step), and the process can be killed between any two steps.              *)

\* The image contents of SpecImage: two that agree on the first RangeBytes
\* bytes and differ beyond them, and one that differs from the first byte.
ImageContents == {<<0, 0, 0>>, <<0, 0, 1>>, <<1, 0>>}

\* The steps inside the try block (line 149 to 175).
TrySteps == {"get", "open_tmp", "write_tmp", "open_hash_tmp", "write_hash_tmp",
             "rename_image", "rename_hash"}

ImageInit ==
    /\ f_img = NoFile /\ f_hash = NoFile /\ f_tmp = NoFile /\ f_hashtmp = NoFile
    /\ d_remote \in ImageContents
    /\ d_pc = "idle" /\ d_force = FALSE
    /\ d_content = <<>> /\ d_ret = "none" /\ d_written = FALSE
    /\ d_before = NoFiles
    /\ VerifyIdle /\ SyncIdle /\ LedgerIdle /\ ScheduleIdle /\ MetaIdle
    /\ RunIdle

\* A caller enters __download_image_async(session, url, path, force).
ImgCall ==
    /\ d_pc = "idle"
    /\ d_pc' = "verify"
    /\ d_force' \in BOOLEAN
    /\ d_ret' = "none"
    /\ d_before' = [img |-> f_img, hashf |-> f_hash, tmp |-> f_tmp,
                    hashtmp |-> f_hashtmp]
    /\ UNCHANGED <<imageFiles, d_remote, d_content, d_written>>
    /\ UNCHANGED imageRest

\* Lines 134-143: the Content Verifier decides; "unchanged" returns False, an
\* exception of the verifier leaves the call (it is outside the try block).
ImgVerify ==
    /\ d_pc = "verify"
    /\ \E resp \in Responses(d_remote) :
         LET r == verify_image_with_range_request(
                      f_img, f_hash, d_force, resp, d_remote)
         IN  IF r.raised THEN d_pc' = "idle" /\ d_ret' = "raised"
             ELSE IF ~r.needs_download THEN d_pc' = "idle" /\ d_ret' = "false"
             ELSE d_pc' = "get" /\ d_ret' = d_ret
    /\ UNCHANGED <<imageFiles, d_remote, d_force, d_content, d_written>>
    /\ UNCHANGED d_before
    /\ UNCHANGED imageRest

\* Lines 150-158: the full GET answered 200, and the body read.
ImgGetOk ==
    /\ d_pc = "get"
    /\ d_pc' = "open_tmp"
    /\ d_content' = d_remote
    /\ UNCHANGED <<imageFiles, d_remote, d_force, d_ret, d_written>>
    /\ UNCHANGED d_before
    /\ UNCHANGED imageRest

\* Lines 154-156: the full GET answered with another status: return False.
ImgGetRefused ==
    /\ d_pc = "get"
    /\ d_pc' = "idle"
    /\ d_ret' = "false"
    /\ UNCHANGED <<imageFiles, d_remote, d_force, d_content, d_written>>
    /\ UNCHANGED d_before
    /\ UNCHANGED imageRest

\* Line 162: open(temp_path, "wb") creates or truncates the temporary file.
ImgOpenTmp ==
    /\ d_pc = "open_tmp"
    /\ d_pc' = "write_tmp"
    /\ f_tmp' = File(<<>>)
    /\ UNCHANGED <<f_img, f_hash, f_hashtmp, d_remote, d_force, d_content,
                   d_ret, d_written>>
    /\ UNCHANGED d_before
    /\ UNCHANGED imageRest

\* Line 163: f.write(content).
ImgWriteTmp ==
    /\ d_pc = "write_tmp"
    /\ d_pc' = "open_hash_tmp"
    /\ f_tmp' = File(d_content)
    /\ UNCHANGED <<f_img, f_hash, f_hashtmp, d_remote, d_force, d_content,
                   d_ret, d_written>>
    /\ UNCHANGED d_before
    /\ UNCHANGED imageRest

\* Line 170: open(temp_hash_path, "w").
ImgOpenHashTmp ==
    /\ d_pc = "open_hash_tmp"
    /\ d_pc' = "write_hash_tmp"
    /\ f_hashtmp' = File(<<>>)
    /\ UNCHANGED <<f_img, f_hash, f_tmp, d_remote, d_force, d_content,
                   d_ret, d_written>>
    /\ UNCHANGED d_before
    /\ UNCHANGED imageRest

\* Lines 166, 171: new_hash = sha256(content); f.write(new_hash).
ImgWriteHashTmp ==
    /\ d_pc = "write_hash_tmp"
    /\ d_pc' = "rename_image"
    /\ f_hashtmp' = File(sha256(d_content))
    /\ UNCHANGED <<f_img, f_hash, f_tmp, d_remote, d_force, d_content,
                   d_ret, d_written>>
    /\ UNCHANGED d_before
    /\ UNCHANGED imageRest

\* Line 174: os.rename(temp_path, image_path).
ImgRenameImage ==
    /\ d_pc = "rename_image"
    /\ d_pc' = "rename_hash"
    /\ f_img' = f_tmp
    /\ f_tmp' = NoFile
    /\ UNCHANGED <<f_hash, f_hashtmp, d_remote, d_force, d_content, d_ret,
                   d_written>>
    /\ UNCHANGED d_before
    /\ UNCHANGED imageRest

\* Lines 175-178: os.rename(temp_hash_path, hash_path); return True.
ImgRenameHash ==
    /\ d_pc = "rename_hash"
    /\ d_pc' = "idle"
    /\ f_hash' = f_hashtmp
    /\ f_hashtmp' = NoFile
    /\ d_ret' = "true"
    /\ d_written' = TRUE
    /\ UNCHANGED <<f_img, f_tmp, d_remote, d_force, d_content>>
    /\ UNCHANGED d_before
    /\ UNCHANGED imageRest

\* Lines 180-188: the pending step of the try block raises; the handler
\* removes the temporary files that exist and returns False.
ImgExcept ==
    /\ d_pc \in TrySteps
    /\ d_pc' = "idle"
    /\ f_tmp' = NoFile
    /\ f_hashtmp' = NoFile
    /\ d_ret' = "false"
    /\ UNCHANGED <<f_img, f_hash, d_remote, d_force, d_content, d_written>>
    /\ UNCHANGED d_before
    /\ UNCHANGED imageRest

\* The process is killed while the call is in flight: nothing runs, the
\* files stay as they are, and a later process calls again.
ImgKill ==
    /\ d_pc # "idle"
    /\ d_pc' = "idle"
    /\ d_ret' = "killed"
    /\ UNCHANGED <<imageFiles, d_remote, d_force, d_content, d_written>>
    /\ UNCHANGED d_before
    /\ UNCHANGED imageRest

\* The remote publishes other bytes at image_url (between calls).
ImgRemoteChange ==
    /\ d_pc = "idle"
    /\ d_remote' \in ImageContents \ {d_remote}
    /\ UNCHANGED <<imageFiles, d_pc, d_force, d_content, d_ret, d_written>>
    /\ UNCHANGED d_before
    /\ UNCHANGED imageRest

ImageNext ==
    \/ ImgCall \/ ImgVerify \/ ImgGetOk \/ ImgGetRefused
    \/ ImgOpenTmp \/ ImgWriteTmp \/ ImgOpenHashTmp \/ ImgWriteHashTmp
    \/ ImgRenameImage \/ ImgRenameHash \/ ImgExcept \/ ImgKill
    \/ ImgRemoteChange

SpecImage == ImageInit /\ [][ImageNext]_vars

----------------------------------------------------------------------------
(* Claims about one artifact, checked under SpecImage *)

\* The signature sidecar is present and holds the digest of the content file.
SidecarMatches ==
    f_hash.state = "ok" /\ f_hash.data = sha256(f_img.data)

\* C3: once a first write of the artifact has completed, in every state (a
\* call in flight, failed or killed at any step) a content file that exists
\* has its sidecar, and the sidecar holds the digest of that content file.
C3_NeverStaleSidecar ==
    (d_written /\ exists(f_img)) => SidecarMatches

\* C26: a failed download changes nothing.  When a call has returned False
\* (the verifier saw no change, the full GET was answered with a status
\* other than 200, or a step of the try block raised), the content file and
\* its signature file are as the call found them and no temporary file of
\* the call remains.
C26_FailedDownloadChangesNothing ==
    (d_pc = "idle" /\ d_ret = "false") =>
        /\ f_img = d_before.img
        /\ f_hash = d_before.hashf
        /\ f_tmp \in {NoFile, d_before.tmp}
        /\ f_hashtmp \in {NoFile, d_before.hashtmp}

----------------------------------------------------------------------------
(* Entity Synchronizer: Card.sync over the mirror of one entity.  The info  *)
(* task is one step (it runs in a thread of its own and touches only the    *)
(* info.json files); each image task is one step, the tasks of one identity *)
(* in any order, the identities one after the other.                        *)

\* Number of calls of Card.sync in a behaviour of SpecSync, and number of
\* events of its environment (network faults and remote changes).
MaxSyncCalls == 2
MaxEvents == 1

\* The image contents of SpecSync.
SyncContents == {<<0, 0, 0>>, <<0, 0, 1>>, <<1, 0>>}

\* Card.identities: list(set(ids)), here in ascending order.
RECURSIVE identities(_)
identities(ids) ==
    IF ids = {} THEN <<>>
    ELSE LET least == CHOOSE i \in ids : \A j \in ids : i <= j
         IN  <<least>> \o identities(ids \ {least})

\* Card.__sync_card_info_id for the file at the identity's path.
sync_card_info_id(file, json, card_id) ==
    LET modified_json == <<card_id, json[2]>>     \* built, then never used
    IN  IF exists(file) /\ (file.state = "unreadable" \/ ~Parsable(file.data))
        THEN [file |-> file, ret |-> "raised"]               \* json.load raises
        ELSE IF exists(file) /\ JsonLoad(file.data) = json
        THEN [file |-> file, ret |-> "false"]
        ELSE [file |-> File(JsonText(json)), ret |-> "true"]

\* Card.sync_card_info: any([__sync_card_info_id(i) for i in identities]);
\* the list is built in full unless a call raises.
RECURSIVE sync_card_info_from(_, _, _, _)
sync_card_info_from(files, json, ids, saved) ==
    IF ids = <<>>
    THEN [files |-> files, ret |-> IF saved THEN "true" ELSE "false"]
    ELSE LET r == sync_card_info_id(files[Head(ids)], json, Head(ids))
         IN  IF r.ret = "raised"
             THEN [files |-> files, ret |-> "raised"]
             ELSE sync_card_info_from([files EXCEPT ![Head(ids)] = r.file],
                                      json, Tail(ids), saved \/ r.ret = "true")

sync_card_info(files, json, ids) == sync_card_info_from(files, json, ids, FALSE)

\* What the full GET and the writes after it do in one call of
\* __download_image_async: succeed; answer a status other than 200; raise
\* before the first rename; raise at the rename of the signature file.
DownloadOutcomes == {"ok", "refused", "raise", "raise_rename_hash"}

\* The range answers of SpecSync: a raised request, a refusal, the honoured
\* range, the whole content with 200, and an empty body.
SyncResponses(remote) ==
    {Raised, Response(404, <<>>), Response(206, ReadBytes(remote, RangeBytes)),
     Response(200, remote), Response(206, <<>>)}

\* One whole call of Card.__download_image_async on an artifact: the files
\* it leaves, its return value, and what it did on the way.
DlResult(img, hashf, ret, wrote, ranged, fetched) ==
    [img |-> img, hashf |-> hashf, ret |-> ret, wrote |-> wrote,
     ranged |-> ranged, fetched |-> fetched]

\* Mutant: the stored signature is not refreshed by a download.
download_image_keeps_hash(img, hashf, force_full_check, resp, dl, remote) ==
    LET v == verify_image_with_range_request(img, hashf, force_full_check,
                                             resp, remote)
    IN  IF v.raised THEN DlResult(img, hashf, "raised", FALSE, v.requests = 1, FALSE)
        ELSE IF ~v.needs_download
        THEN DlResult(img, hashf, "false", FALSE, v.requests = 1, FALSE)
        ELSE IF dl = "ok"
        THEN DlResult(File(remote), File(Garbage), "true", TRUE,
                      v.requests = 1, TRUE)
        ELSE DlResult(img, hashf, "false", FALSE, v.requests = 1, TRUE)

download_image(img, hashf, force_full_check, resp, dl, remote) ==
    LET v == verify_image_with_range_request(img, hashf, force_full_check,
                                             resp, remote)
    IN  IF v.raised THEN DlResult(img, hashf, "raised", FALSE, v.requests = 1, FALSE)
        ELSE IF ~v.needs_download
        THEN DlResult(img, hashf, "false", FALSE, v.requests = 1, FALSE)
        ELSE IF dl = "ok"
        THEN DlResult(File(remote), File(sha256(remote)), "true", TRUE,
                      v.requests = 1, TRUE)
        ELSE IF dl = "raise_rename_hash"
        THEN DlResult(File(remote), hashf, "false", TRUE, v.requests = 1, TRUE)
        ELSE DlResult(img, hashf, "false", FALSE, v.requests = 1, TRUE)

\* The answers that matter to a call: those of the range request when the
\* verifier issues one, those of the full GET when the verifier asks for it.
RangeAnswers(img, hashf, force_full_check, remote) ==
    IF verify_image_with_range_request(img, hashf, force_full_check, Raised,
                                       remote).requests = 1
    THEN SyncResponses(remote) ELSE {Raised}

DownloadAnswers(img, hashf, force_full_check, resp, remote) ==
    LET v == verify_image_with_range_request(img, hashf, force_full_check,
                                             resp, remote)
    IN  IF ~v.raised /\ v.needs_download THEN DownloadOutcomes ELSE {"ok"}

SyncInit ==
    /\ m_info = [i \in Ids |-> NoFile]
    /\ m_img = [a \in Artifacts |-> NoFile]
    /\ m_hash = [a \in Artifacts |-> NoFile]
    /\ s_ids \in {{}, {1}, {1, 2}}
    /\ s_payload = <<1, 1>>
    /\ s_remote = [a \in Artifacts |-> <<0, 0, 0>>]
    /\ s_pc = "idle" /\ s_force = FALSE /\ s_json = <<1, 1>>
    /\ s_info = "pending" /\ s_idsLeft = <<>> /\ s_rolesLeft = {}
    /\ s_idSaved = FALSE /\ s_image = FALSE /\ s_imgRaised = FALSE
    /\ s_ret = "none" /\ s_calls = 0 /\ s_wrote = FALSE
    /\ s_rangeOk = TRUE /\ s_dlOk = TRUE /\ s_prev = NoPrev
    /\ s_quiet = TRUE /\ s_faults = 0 /\ s_changes = 0
    /\ s_removed = NoRemoval /\ s_fetched = {} /\ s_written = {}
    /\ VerifyIdle /\ ImageIdle /\ LedgerIdle /\ ScheduleIdle /\ MetaIdle
    /\ RunIdle

\* Card(card_data, path).sync(session, force_full_check) begins: lines 238-241.
SyncCall ==
    /\ s_pc = "idle"
    /\ s_calls < MaxSyncCalls
    /\ s_pc' = "running"
    /\ s_force' \in BOOLEAN
    /\ s_json' = s_payload
    /\ s_info' = "pending"
    /\ s_idsLeft' = identities(s_ids)
    /\ s_rolesLeft' = IF s_ids = {} THEN {} ELSE Roles
    /\ s_idSaved' = FALSE /\ s_image' = FALSE /\ s_imgRaised' = FALSE
    /\ s_ret' = "none"
    /\ s_calls' = s_calls + 1
    /\ s_wrote' = FALSE /\ s_rangeOk' = TRUE /\ s_dlOk' = TRUE
    /\ s_prev' = [ret |-> s_ret, force |-> s_force, rangeOk |-> s_rangeOk,
                  dlOk |-> s_dlOk, quiet |-> s_quiet]
    /\ s_quiet' = TRUE
    /\ UNCHANGED <<mirrorFiles, s_ids, s_payload, s_remote, s_faults, s_changes>>
    /\ s_fetched' = {} /\ s_written' = {}
    /\ UNCHANGED s_removed
    /\ UNCHANGED syncRest

\* info_task: asyncio.to_thread(self.sync_card_info).
SyncInfo ==
    /\ s_pc = "running"
    /\ s_info = "pending"
    /\ LET r == sync_card_info(m_info, s_json, identities(s_ids))
       IN  /\ m_info' = r.files
           /\ s_info' = r.ret
           /\ s_wrote' = (s_wrote \/ r.files # m_info)
    /\ UNCHANGED <<m_img, m_hash, s_ids, s_payload, s_remote, s_pc, s_force,
                   s_json, s_idsLeft, s_rolesLeft, s_idSaved, s_image,
                   s_imgRaised, s_ret, s_calls, s_rangeOk, s_dlOk, s_prev,
                   s_quiet, s_faults, s_changes>>
    /\ UNCHANGED <<s_removed, s_fetched, s_written>>
    /\ UNCHANGED syncRest

\* One image task of download_images_async_for_id for the current identity
\* (lines 209-222); with the last of them the identity is done and
\* download_images_async (line 229) goes on to the next, unless a task raised.
SyncImage ==
    /\ s_pc = "running"
    /\ s_idsLeft # <<>>
    /\ \E role \in s_rolesLeft :
       \E resp \in RangeAnswers(m_img[<<Head(s_idsLeft), role>>],
                                m_hash[<<Head(s_idsLeft), role>>], s_force,
                                s_remote[<<Head(s_idsLeft), role>>]) :
       \E dl \in DownloadAnswers(m_img[<<Head(s_idsLeft), role>>],
                                 m_hash[<<Head(s_idsLeft), role>>], s_force,
                                 resp, s_remote[<<Head(s_idsLeft), role>>]) :
         LET a == <<Head(s_idsLeft), role>>
             r == download_image(m_img[a], m_hash[a], s_force, resp, dl,
                                 s_remote[a])
             rangeFault == r.ranged /\ ~RangeHonoured(resp, s_remote[a])
             dlFault == r.fetched /\ dl # "ok"
             faults == (IF rangeFault THEN 1 ELSE 0) + (IF dlFault THEN 1 ELSE 0)
             saved == s_idSaved \/ r.ret = "true"
             raised == s_imgRaised \/ r.ret = "raised"
             last == s_rolesLeft = {role}
         IN  /\ s_faults + s_changes + faults <= MaxEvents
             /\ s_faults' = s_faults + faults
             /\ m_img' = [m_img EXCEPT ![a] = r.img]
             /\ m_hash' = [m_hash EXCEPT ![a] = r.hashf]
             /\ s_wrote' = (s_wrote \/ r.wrote)
             /\ s_fetched' = IF r.fetched THEN s_fetched \cup {a} ELSE s_fetched
             /\ s_written' = IF r.wrote THEN s_written \cup {a} ELSE s_written
             /\ s_rangeOk' = (s_rangeOk /\ ~rangeFault)
             /\ s_dlOk' = (s_dlOk /\ ~dlFault)
             /\ s_imgRaised' = raised
             /\ s_idSaved' = IF last THEN FALSE ELSE saved
             /\ s_image' = IF last THEN (s_image \/ saved) ELSE s_image
             /\ s_idsLeft' = IF ~last THEN s_idsLeft
                             ELSE IF raised THEN <<>> ELSE Tail(s_idsLeft)
             /\ s_rolesLeft' = IF ~last THEN s_rolesLeft \ {role}
                               ELSE IF raised \/ Tail(s_idsLeft) = <<>> THEN {}
                               ELSE Roles
    /\ UNCHANGED <<m_info, s_ids, s_payload, s_remote, s_pc, s_force, s_json,
                   s_info, s_ret, s_calls, s_prev, s_quiet, s_changes>>
    /\ UNCHANGED s_removed
    /\ UNCHANGED syncRest

\* Lines 244-246: gather(info_task, image_task); return info_saved or
\* image_saved, or the exception of the task that raised.
SyncEnd ==
    /\ s_pc = "running"
    /\ s_info # "pending"
    /\ s_idsLeft = <<>>
    /\ s_pc' = "idle"
    /\ s_ret' = IF s_info = "raised" \/ s_imgRaised THEN "raised"
                ELSE IF s_info = "true" \/ s_image THEN "true"
                ELSE "false"
    /\ UNCHANGED <<mirrorFiles, s_ids, s_payload, s_remote, s_force, s_json,
                   s_info, s_idsLeft, s_rolesLeft, s_idSaved, s_image,
                   s_imgRaised, s_calls, s_wrote, s_rangeOk, s_dlOk, s_prev,
                   s_quiet, s_faults, s_changes>>
    /\ UNCHANGED <<s_removed, s_fetched, s_written>>
    /\ UNCHANGED syncRest

\* Between two calls the catalog serves another payload for the entity.
SyncPayloadChange ==
    /\ s_pc = "idle"
    /\ s_faults + s_changes < MaxEvents
    /\ s_payload' = <<s_payload[1], 3 - s_payload[2]>>
    /\ s_changes' = s_changes + 1
    /\ s_quiet' = FALSE
    /\ UNCHANGED <<mirrorFiles, s_ids, s_remote, s_pc, s_force, s_json, s_info,
                   s_idsLeft, s_rolesLeft, s_idSaved, s_image, s_imgRaised,
                   s_ret, s_calls, s_wrote, s_rangeOk, s_dlOk, s_prev, s_faults>>
    /\ UNCHANGED <<s_removed, s_fetched, s_written>>
    /\ UNCHANGED syncRest

\* Between two calls the remote serves other bytes for one image.
SyncImageChange ==
    /\ s_pc = "idle"
    /\ s_faults + s_changes < MaxEvents
    /\ \E a \in s_ids \X Roles :
       \E c \in SyncContents \ {s_remote[a]} :
         s_remote' = [s_remote EXCEPT ![a] = c]
    /\ s_changes' = s_changes + 1
    /\ s_quiet' = FALSE
    /\ UNCHANGED <<mirrorFiles, s_ids, s_payload, s_pc, s_force, s_json, s_info,
                   s_idsLeft, s_rolesLeft, s_idSaved, s_image, s_imgRaised,
                   s_ret, s_calls, s_wrote, s_rangeOk, s_dlOk, s_prev, s_faults>>
    /\ UNCHANGED <<s_removed, s_fetched, s_written>>
    /\ UNCHANGED syncRest

\* Every artifact of the entity is in the mirror as the remote has it,
\* with its signature, and every metadata file holds the payload.
Intact ==
    /\ \A a \in s_ids \X Roles :
         /\ m_img[a] = File(s_remote[a])
         /\ m_hash[a] = File(sha256(s_remote[a]))
    /\ \A i \in s_ids : m_info[i] = File(JsonText(s_payload))

\* Before a call one signature file of an intact mirror is removed.
SyncSidecarRemoved ==
    /\ s_pc = "idle"
    /\ s_calls < MaxSyncCalls
    /\ s_removed = NoRemoval
    /\ Intact
    /\ \E a \in s_ids \X Roles :
         /\ m_hash' = [m_hash EXCEPT ![a] = NoFile]
         /\ s_removed' = [artifact |-> a, at |-> s_calls]
    /\ UNCHANGED <<m_info, m_img, s_ids, s_payload, s_remote, s_pc, s_force,
                   s_json, s_info, s_idsLeft, s_rolesLeft, s_idSaved, s_image,
                   s_imgRaised, s_ret, s_calls, s_wrote, s_rangeOk, s_dlOk,
                   s_prev, s_quiet, s_faults, s_changes, s_fetched, s_written>>
    /\ UNCHANGED syncRest

SyncNext ==
    \/ SyncCall \/ SyncInfo \/ SyncImage \/ SyncEnd
    \/ SyncPayloadChange \/ SyncImageChange

SpecSync == SyncInit /\ [][SyncNext]_vars

\* SpecRepair: the mirror as a call of sync that downloaded everything
\* leaves it, for one identity or two; a signature file is removed, and the
\* last call of the behaviour follows.
RepairInit ==
    /\ s_ids \in {{1}, {1, 2}}
    /\ s_payload = <<1, 1>>
    /\ s_remote = [a \in Artifacts |-> <<0, 0, 0>>]
    /\ m_info = [i \in Ids |-> IF i \in s_ids THEN File(JsonText(s_payload))
                                ELSE NoFile]
    /\ m_img = [a \in Artifacts |-> IF a[1] \in s_ids THEN File(s_remote[a])
                                     ELSE NoFile]
    /\ m_hash = [a \in Artifacts |-> IF a[1] \in s_ids
                                      THEN File(sha256(s_remote[a])) ELSE NoFile]
    /\ s_pc = "idle" /\ s_force = FALSE /\ s_json = <<1, 1>>
    /\ s_info = "false" /\ s_idsLeft = <<>> /\ s_rolesLeft = {}
    /\ s_idSaved = FALSE /\ s_image = FALSE /\ s_imgRaised = FALSE
    /\ s_ret = "true" /\ s_calls = MaxSyncCalls - 1 /\ s_wrote = TRUE
    /\ s_rangeOk = TRUE /\ s_dlOk = TRUE /\ s_prev = NoPrev
    /\ s_quiet = TRUE /\ s_faults = 0 /\ s_changes = 0
    /\ s_removed = NoRemoval /\ s_fetched = {} /\ s_written = {}
    /\ VerifyIdle /\ ImageIdle /\ LedgerIdle /\ ScheduleIdle /\ MetaIdle
    /\ RunIdle

RepairNext == SyncNext \/ SyncSidecarRemoved

SpecRepair == RepairInit /\ [][RepairNext]_vars

\* What a damaged file of the mirror can be: one that fails on open or read,
\* or one whose text is neither a JSON document nor a digest.
Damaged == {Unreadable, File(Garbage)}

\* Before a call one metadata file or one signature file of an intact
\* mirror is damaged.
SyncFileDamaged ==
    /\ s_pc = "idle"
    /\ s_calls < MaxSyncCalls
    /\ Intact
    /\ \E f \in Damaged :
         \/ \E i \in s_ids :
              /\ m_info' = [m_info EXCEPT ![i] = f]
              /\ UNCHANGED m_hash
         \/ \E a \in s_ids \X Roles :
              /\ m_hash' = [m_hash EXCEPT ![a] = f]
              /\ UNCHANGED m_info
    /\ UNCHANGED <<m_img, s_ids, s_payload, s_remote, s_pc, s_force,
                   s_json, s_info, s_idsLeft, s_rolesLeft, s_idSaved, s_image,
                   s_imgRaised, s_ret, s_calls, s_wrote, s_rangeOk, s_dlOk,
                   s_prev, s_quiet, s_faults, s_changes, s_removed, s_fetched,
                   s_written>>
    /\ UNCHANGED syncRest

\* SpecDamage: the intact mirror of SpecRepair, a file of which is damaged
\* before the last call of the behaviour.
DamageNext == SyncNext \/ SyncFileDamaged

SpecDamage == RepairInit /\ [][DamageNext]_vars

----------------------------------------------------------------------------
(* Claims about Card.sync, checked under SpecSync *)

\* The case of C7: a call has ended, the call before it returned with every
\* download it made succeeding, and the remote did not change from the
\* beginning of that call on.
C7_Case ==
    /\ s_pc = "idle" /\ s_calls >= 2
    /\ s_prev.ret \in {"true", "false"} /\ s_prev.dlOk /\ s_prev.quiet

----------------------------------------------------------------------------
(* __should_do_full_verification as a function of the ledger and the clock *)

\* The entries of SpecSchedule: written at time 0, at time 1, at a time in
\* the future, with a date that does not parse, or with none; of a run that
\* went through the whole listing or stopped early; with full-hash checks
\* or without.
ScheduleEntries ==
    {Entry(t, p, 4, 0, NoHash, FALSE, c) :
        t \in {0, 1, 30 * UnitsPerDay, BadTime, NoTime}, p \in {2, 4}, c \in {0, 4}}

ScheduleLogs ==
    {<<>>} \cup {<<e>> : e \in ScheduleEntries}
           \cup {<<e1, e2>> : e1 \in ScheduleEntries, e2 \in ScheduleEntries}

ScheduleStores ==
    {AbsentStore, InvalidStore, ScalarStore, ObjectStore}
        \cup {ListStore(l) : l \in ScheduleLogs}
        \cup {DictStore(NoResume, l) : l \in ScheduleLogs}

\* Clock times around 27 and 28 days after times 0 and 1.
ScheduleTimes ==
    (27 * UnitsPerDay)..(28 * UnitsPerDay + 1)

ScheduleInit ==
    /\ store \in ScheduleStores
    /\ now \in ScheduleTimes
    /\ q_pc = "call"
    /\ q_forced = FALSE
    /\ VerifyIdle /\ ImageIdle /\ SyncIdle /\ MetaIdle /\ RunIdle

\* force_full_check = self.__should_do_full_verification(); the Meta() it
\* builds migrates a legacy file on the way.
ScheduleCall ==
    /\ q_pc = "call"
    /\ q_pc' = "returned"
    /\ q_forced' = should_do_full_verification(store, now)
    /\ store' = ensure_new_format(store)
    /\ UNCHANGED now
    /\ UNCHANGED scheduleRest

SpecSchedule == ScheduleInit /\ [][ScheduleCall]_vars

\* The entries of a ledger file that count as full-verification records.
FullRecords(st) ==
    IF st.kind \in {"dict", "list"}
    THEN {i \in 1..Len(st.log) :
             /\ st.log[i].full_hash_verifications > 0
             /\ st.log[i].cards_processed = st.log[i].cards_found}
    ELSE {}

LastFullRecord(st) ==
    st.log[CHOOSE i \in FullRecords(st) : \A j \in FullRecords(st) : j <= i]

\* C1: full verification is forced exactly when the ledger holds no
\* qualifying record, or the date of the last one is missing or does not
\* parse, or that date lies 28 whole days or more before now.
C1_ForcedExactlyWhenDue ==
    q_pc = "returned" =>
        (q_forced <=>
            \/ FullRecords(store) = {}
            \/ LastFullRecord(store).triggered_time \in {BadTime, NoTime}
            \/ now - LastFullRecord(store).triggered_time
                   >= FullVerificationDays * UnitsPerDay)

\* C1 witness: a qualifying record less than 28 days old (27 days and more)
\* followed by a younger entry that does not qualify: not forced.
C1_Witness ==
    /\ q_pc = "returned" /\ ~q_forced
    /\ store.kind = "dict" /\ Len(store.log) = 2
    /\ store.log[1] = Entry(1, 4, 4, 0, NoHash, FALSE, 4)
    /\ store.log[2] = Entry(1, 2, 4, 0, NoHash, FALSE, 4)
    /\ now = FullVerificationDays * UnitsPerDay

----------------------------------------------------------------------------
(* Batch Orchestrator: DownloadSession.start, run after run.  Card.sync is  *)
(* taken by its outcome (SpecSync has its inside): it returns True (the     *)
(* card was updated), returns False, or raises.                             *)

\* Number of runs of a behaviour of Spec.
MaxRuns == 2

\* The defaults of the properties batch_size and concurrent_operations, and
\* the numbers of sample_size = max(int(card_count * 0.05), 10).
DefaultBatchSize == 10
DefaultConcurrency == 10
SamplePercent == 5
MinSample == 10

\* The listings the catalog serves, the settings of the runs, and the steps
\* the clock makes between runs: no step, or one of 27 days and a part of
\* the 28th, or one of 28 days.
Catalogs == {<<1, 2, 3>>, <<1, 2, 3, 4>>}

Setting(b, c, d) ==
    [batch_size |-> b, concurrent_operations |-> c, download_count |-> d]

RunSettings ==
    {Setting(NotSet, NotSet, NotSet), Setting(2, 1, 1), Setting(3, 2, NotSet)}

ClockSteps ==
    {(FullVerificationDays - 1) * UnitsPerDay + 1,
     FullVerificationDays * UnitsPerDay}

\* The ledger files a first run can find: none, a damaged one, a legacy
\* array of an entry written before hashes were recorded.
LegacyEntry == Entry(0, 3, 3, 0, NoHash, FALSE, 0)
InitStores == {AbsentStore, InvalidStore, ListStore(<<LegacyEntry>>)}

\* The properties of DownloadSession.
card_count == Len(card_info)
batch_size ==
    IF settings.batch_size = NotSet THEN DefaultBatchSize
    ELSE settings.batch_size
\* Mutant: download_count is not looked at.
cards_to_download_unset == card_count

cards_to_download ==
    IF settings.download_count = NotSet THEN card_count
    ELSE settings.download_count
concurrent_operations ==
    IF settings.concurrent_operations = NotSet THEN DefaultConcurrency
    ELSE settings.concurrent_operations

Max(a, b) == IF a > b THEN a ELSE b

\* Mutant: five per cent of the listing, however few.
sample_size_percent_only == (card_count * SamplePercent) \div 100

\* max(int(self.card_count * 0.05), 10)
sample_size == Max((card_count * SamplePercent) \div 100, MinSample)

Range(seq) == {seq[k] : k \in 1..Len(seq)}

\* self.card_info[i:i + self.batch_size]
Batch(k) == SubSeq(card_info, k + 1, Min(k + batch_size, card_count))

\* Mutant: a task enters Card.sync without a free slot of the semaphore.
acquire_always == TRUE

\* async with semaphore: a task gets past the semaphore when its value is
\* positive.
can_acquire == semaphore > 0

\* Mutant: the batch is over with the first task that is.
gather_first ==
    \E c \in DOMAIN tasks : tasks[c] \in {"updated", "same", "failed"}

\* await asyncio.gather(*tasks): every task of the batch is over.
gather_done ==
    \A c \in DOMAIN tasks : tasks[c] \in {"updated", "same", "failed"}

\* Mutant: the listing counts as unchanged whatever the ledger recorded.
listing_unchanged_always(last_hash, current_hash) == TRUE

\* last_hash == current_hash in __get_card_info
listing_unchanged(last_hash, current_hash) == last_hash = current_hash

\* The calls in flight with one more, and with one less.
Calling(calls, c, force_full_check) ==
    [d \in DOMAIN calls \cup {c} |-> IF d = c THEN force_full_check ELSE calls[d]]
Without(calls, c) ==
    IF DOMAIN calls \subseteq {c} THEN <<>>
    ELSE [d \in DOMAIN calls \ {c} |-> calls[d]]

\* random.sample(self.card_info, k): a list of k cards at k different places
\* of the listing.  The draws of the model are the runs of k cards that
\* begin after the first SampleOffsets places, going round the listing.
SampleOffsets == {0, 1, 2}
SampleDraws(listing, k) ==
    {[j \in 1..k |-> listing[((o + j - 1) % Len(listing)) + 1]] :
        o \in SampleOffsets}

Init ==
    /\ store \in InitStores
    /\ now = 0
    /\ catalog \in Catalogs
    /\ settings \in RunSettings
    /\ r_pc = "idle" /\ card_info = <<>> /\ api_response_hash = NoHash
    /\ api_unchanged = FALSE /\ r_force = FALSE /\ start_time = 0
    /\ sample_left = <<>> /\ sync_force = <<>>
    /\ r_i = 0 /\ tasks = <<>> /\ semaphore = 0
    /\ updated_cards = <<>> /\ total_processed = 0 /\ full_hash_checks = 0
    /\ r_runs = 0 /\ r_path = "none" /\ r_end = "none"
    /\ r_started = {} /\ r_finished = {} /\ r_failed = {}
    /\ VerifyIdle /\ ImageIdle /\ SyncIdle /\ ScheduleIdle /\ MetaIdle

\* start returns or ends with an exception: the session and what it held
\* are gone.
SessionDropped ==
    /\ card_info' = <<>> /\ api_response_hash' = NoHash /\ api_unchanged' = FALSE
    /\ r_force' = FALSE /\ updated_cards' = <<>>
    /\ r_i' = 0 /\ tasks' = <<>> /\ semaphore' = 0
    /\ total_processed' = 0 /\ full_hash_checks' = 0
    /\ r_started' = {} /\ r_finished' = {}
    /\ sync_force' = <<>>

\* DownloadSession(download_path, api_version, settings) and start() begin.
RunStart ==
    /\ r_pc = "idle"
    /\ r_runs < MaxRuns
    /\ r_pc' = "fetch"
    /\ r_runs' = r_runs + 1
    /\ card_info' = <<>> /\ api_response_hash' = NoHash /\ api_unchanged' = FALSE
    /\ r_force' = FALSE /\ sample_left' = <<>> /\ r_i' = 0 /\ tasks' = <<>>
    /\ semaphore' = 0 /\ updated_cards' = <<>> /\ total_processed' = 0
    /\ full_hash_checks' = 0
    /\ r_path' = "none" /\ r_end' = "none"
    /\ r_started' = {} /\ r_finished' = {} /\ r_failed' = {}
    /\ UNCHANGED <<store, now, catalog, settings, start_time>>
    /\ UNCHANGED sync_force
    /\ UNCHANGED runRest

\* __get_card_info: the listing is fetched and hashed, Meta() migrates a
\* legacy ledger, and the hash is compared with the last one recorded.
FetchListing ==
    /\ r_pc = "fetch"
    /\ r_pc' = "decide"
    /\ api_response_hash' = sha256(catalog)
    /\ store' = ensure_new_format(store)
    /\ api_unchanged' = listing_unchanged(get_last_api_hash(store'),
                                          sha256(catalog))
    /\ card_info' = catalog
    /\ UNCHANGED <<now, catalog, settings, r_force, start_time, sample_left,
                   r_i, tasks, semaphore, updated_cards, total_processed,
                   full_hash_checks, r_runs, r_path, r_end, r_started,
                   r_finished, r_failed>>
    /\ UNCHANGED sync_force
    /\ UNCHANGED runRest

\* The GET of the listing raises: start ends with the exception.
FetchFails ==
    /\ r_pc = "fetch"
    /\ r_pc' = "idle"
    /\ r_end' = "fetch_failed"
    /\ UNCHANGED <<store, now, catalog, settings, card_info, api_response_hash,
                   api_unchanged, r_force, start_time, sample_left, r_i, tasks,
                   semaphore, updated_cards, total_processed, full_hash_checks,
                   r_runs, r_path, r_started, r_finished, r_failed>>
    /\ UNCHANGED sync_force
    /\ UNCHANGED runRest

\* Lines 117-131 and 150-156: force_full_check is decided and the path
\* taken; random.sample draws the sample, or the semaphore is made.
DecideMode ==
    /\ r_pc = "decide"
    /\ r_force' = should_do_full_verification(store, now)
    /\ store' = ensure_new_format(store)
    /\ start_time' = now
    /\ IF api_unchanged /\ ~r_force'
       THEN /\ r_pc' = "sample"
            /\ r_path' = "sample"
            /\ \E sample \in SampleDraws(card_info,
                                          Min(sample_size, card_count)) :
                 sample_left' = sample
            /\ semaphore' = concurrent_operations
       ELSE /\ r_pc' = "full"
            /\ r_path' = "full"
            /\ sample_left' = <<>>
            /\ semaphore' = concurrent_operations
    /\ UNCHANGED <<now, catalog, settings, card_info, api_response_hash,
                   api_unchanged, r_i, tasks, updated_cards, total_processed,
                   full_hash_checks, r_runs, r_end, r_started, r_finished,
                   r_failed>>
    /\ UNCHANGED sync_force
    /\ UNCHANGED runRest

\* __verify_sample_cards, one turn of its loop begins (lines 66-69): the
\* next card of the sample is handed to Card.sync with force_full_check=True.
SampleBegin ==
    /\ r_pc = "sample"
    /\ DOMAIN sync_force = {}
    /\ sample_left # <<>>
    /\ sync_force' = Calling(sync_force, Head(sample_left), TRUE)
    /\ sample_left' = Tail(sample_left)
    /\ r_started' = r_started \cup {Head(sample_left)}
    /\ UNCHANGED <<store, now, catalog, settings, r_pc, card_info,
                   api_response_hash, api_unchanged, r_force, start_time, r_i,
                   tasks, semaphore, updated_cards, total_processed,
                   full_hash_checks, r_runs, r_path, r_end, r_finished,
                   r_failed>>
    /\ UNCHANGED runRest

\* The turn ends (lines 69-71): Card.sync of the sampled card returns.
SampleSync ==
    /\ r_pc = "sample"
    /\ \E c \in DOMAIN sync_force, card_saved \in BOOLEAN :
         /\ sync_force' = Without(sync_force, c)
         /\ updated_cards' = IF card_saved THEN Append(updated_cards, c)
                             ELSE updated_cards
         /\ r_finished' = r_finished \cup {c}
    /\ UNCHANGED <<store, now, catalog, settings, r_pc, card_info,
                   api_response_hash, api_unchanged, r_force, start_time,
                   sample_left, r_i, tasks, semaphore, total_processed,
                   full_hash_checks, r_runs, r_path, r_end, r_started,
                   r_failed>>
    /\ UNCHANGED runRest

\* The same turn when Card.sync raises: nothing catches the exception in
\* __verify_sample_cards or in start, and start ends with it.
SampleSyncRaises ==
    /\ r_pc = "sample"
    /\ \E c \in DOMAIN sync_force : r_failed' = r_failed \cup {c}
    /\ sample_left' = <<>>
    /\ r_pc' = "idle"
    /\ r_end' = "entity_raised"
    /\ SessionDropped
    /\ UNCHANGED <<store, now, catalog, settings, start_time, r_runs, r_path>>
    /\ UNCHANGED runRest

\* Lines 133-147: the sample is done; Meta().update records the run.
SampleRecord ==
    /\ r_pc = "sample"
    /\ sample_left = <<>>
    /\ DOMAIN sync_force = {}
    /\ LET u == update(store,
                       Entry(start_time, sample_size, card_count,
                             Len(updated_cards), api_response_hash, TRUE,
                             sample_size))
       IN  /\ store' = u.store
           /\ r_end' = IF u.raised THEN "ledger_raised" ELSE "recorded"
    /\ r_pc' = "idle"
    /\ SessionDropped
    /\ UNCHANGED <<now, catalog, settings, start_time, sample_left, r_runs,
                   r_path, r_failed>>
    /\ UNCHANGED runRest

\* Lines 159-163 and 104: the next turn of the batch loop creates one task
\* per card of the batch; each waits for the semaphore.
BatchStart ==
    /\ r_pc = "full"
    /\ r_i < card_count
    /\ r_pc' = "batch"
    /\ tasks' = [c \in Range(Batch(r_i)) |-> "waiting"]
    /\ UNCHANGED <<store, now, catalog, settings, card_info, api_response_hash,
                   api_unchanged, r_force, start_time, sample_left, r_i,
                   semaphore, updated_cards, total_processed, full_hash_checks,
                   r_runs, r_path, r_end, r_started, r_finished, r_failed>>
    /\ UNCHANGED sync_force
    /\ UNCHANGED runRest

\* Lines 91-94: a task gets past the semaphore and calls Card.sync.
TaskAcquire ==
    /\ r_pc = "batch"
    /\ can_acquire
    /\ \E c \in DOMAIN tasks :
         /\ tasks[c] = "waiting"
         /\ tasks' = [tasks EXCEPT ![c] = "running"]
         /\ r_started' = r_started \cup {c}
         /\ sync_force' = Calling(sync_force, c, r_force)
    /\ semaphore' = semaphore - 1
    /\ UNCHANGED <<store, now, catalog, settings, r_pc, card_info,
                   api_response_hash, api_unchanged, r_force, start_time,
                   sample_left, r_i, updated_cards, total_processed,
                   full_hash_checks, r_runs, r_path, r_end, r_finished,
                   r_failed>>
    /\ UNCHANGED runRest

\* Lines 94-97: Card.sync returns; the task returns the card's name or None
\* and leaves the semaphore.
TaskReturns ==
    /\ r_pc = "batch"
    /\ \E c \in DOMAIN tasks, card_saved \in BOOLEAN :
         /\ tasks[c] = "running"
         /\ tasks' = [tasks EXCEPT ![c] = IF card_saved THEN "updated" ELSE "same"]
         /\ r_finished' = r_finished \cup {c}
         /\ sync_force' = Without(sync_force, c)
    /\ semaphore' = semaphore + 1
    /\ UNCHANGED <<store, now, catalog, settings, r_pc, card_info,
                   api_response_hash, api_unchanged, r_force, start_time,
                   sample_left, r_i, updated_cards, total_processed,
                   full_hash_checks, r_runs, r_path, r_end, r_started,
                   r_failed>>
    /\ UNCHANGED runRest

\* Lines 99-101: Card.sync raises; the task catches it, returns None and
\* leaves the semaphore.
TaskRaises ==
    /\ r_pc = "batch"
    /\ \E c \in DOMAIN tasks :
         /\ tasks[c] = "running"
         /\ tasks' = [tasks EXCEPT ![c] = "failed"]
         /\ r_finished' = r_finished \cup {c}
         /\ r_failed' = r_failed \cup {c}
         /\ sync_force' = Without(sync_force, c)
    /\ semaphore' = semaphore + 1
    /\ UNCHANGED <<store, now, catalog, settings, r_pc, card_info,
                   api_response_hash, api_unchanged, r_force, start_time,
                   sample_left, r_i, updated_cards, total_processed,
                   full_hash_checks, r_runs, r_path, r_end, r_started>>
    /\ UNCHANGED runRest

\* Lines 105-106 and 164-173: gather returns the results in the order of
\* the batch; the counters are updated and the loop goes on or breaks.
BatchEnd ==
    /\ r_pc = "batch"
    /\ gather_done
    /\ LET batch == Batch(r_i)
           batch_updated == SelectSeq(batch, LAMBDA c : tasks[c] = "updated")
           all_updated == updated_cards \o batch_updated
       IN  /\ updated_cards' = all_updated
           /\ total_processed' = total_processed + Len(batch)
           /\ full_hash_checks' = IF r_force THEN full_hash_checks + Len(batch)
                                  ELSE full_hash_checks
           /\ r_pc' = IF Len(all_updated) >= cards_to_download THEN "record"
                      ELSE "full"
    /\ r_i' = r_i + batch_size
    /\ tasks' = <<>>
    /\ UNCHANGED <<store, now, catalog, settings, card_info, api_response_hash,
                   api_unchanged, r_force, start_time, sample_left, semaphore,
                   r_runs, r_path, r_end, r_started, r_finished, r_failed>>
    /\ UNCHANGED sync_force
    /\ UNCHANGED runRest

\* Line 159: range(0, card_count, batch_size) is exhausted.
BatchLoopEnd ==
    /\ r_pc = "full"
    /\ r_i >= card_count
    /\ r_pc' = "record"
    /\ UNCHANGED <<store, now, catalog, settings, card_info, api_response_hash,
                   api_unchanged, r_force, start_time, sample_left, r_i, tasks,
                   semaphore, updated_cards, total_processed, full_hash_checks,
                   r_runs, r_path, r_end, r_started, r_finished, r_failed>>
    /\ UNCHANGED sync_force
    /\ UNCHANGED runRest

\* Lines 175-186: Meta().update records the run.
FullRecord ==
    /\ r_pc = "record"
    /\ LET u == update(store,
                       Entry(start_time, total_processed, card_count,
                             Len(updated_cards), api_response_hash,
                             api_unchanged, full_hash_checks))
       IN  /\ store' = u.store
           /\ r_end' = IF u.raised THEN "ledger_raised" ELSE "recorded"
    /\ r_pc' = "idle"
    /\ SessionDropped
    /\ r_failed' = {}
    /\ UNCHANGED <<now, catalog, settings, start_time, sample_left, r_runs,
                   r_path>>
    /\ UNCHANGED runRest

\* Between two runs time passes.
ClockStep ==
    /\ r_pc = "idle"
    /\ r_runs \in 1..(MaxRuns - 1)
    /\ now = start_time
    /\ \E d \in ClockSteps : now' = now + d
    /\ UNCHANGED <<store, runVars>>
    /\ UNCHANGED sync_force
    /\ UNCHANGED runRest

\* Between two runs the catalog serves another listing.
CatalogChange ==
    /\ r_pc = "idle"
    /\ r_runs \in 1..(MaxRuns - 1)
    /\ \E l \in Catalogs \ {catalog} : catalog' = l
    /\ UNCHANGED <<store, now, settings, r_pc, card_info, api_response_hash,
                   api_unchanged, r_force, start_time, sample_left, r_i, tasks,
                   semaphore, updated_cards, total_processed, full_hash_checks,
                   r_runs, r_path, r_end, r_started, r_finished, r_failed>>
    /\ UNCHANGED sync_force
    /\ UNCHANGED runRest

Next ==
    \/ RunStart \/ FetchListing \/ FetchFails \/ DecideMode
    \/ SampleBegin \/ SampleSync \/ SampleSyncRaises \/ SampleRecord
    \/ BatchStart \/ TaskAcquire \/ TaskReturns \/ TaskRaises \/ BatchEnd
    \/ BatchLoopEnd \/ FullRecord
    \/ ClockStep \/ CatalogChange

Spec == Init /\ [][Next]_vars

----------------------------------------------------------------------------
(* Claims about the Batch Orchestrator *)

\* start is past its choice of a path and has not returned.
InRun == r_pc \in {"sample", "full", "batch", "record"}

\* What the ledger says of the listing this run fetched, and of the date of
\* the last full verification at the time the run decided.
LedgerHasListing == get_last_api_hash(store) = sha256(card_info)
LedgerForces == should_do_full_verification(store, start_time)

\* C2: a run takes the SAMPLE_VERIFY path if and only if the signature of
\* the listing it fetched equals the last listing signature in the ledger
\* and the ledger does not force full verification; in every other case it
\* takes FULL_SYNC, whatever the age of the last full verification.
C2_SampleIffUnchangedAndNotForced ==
    InRun =>
        /\ r_path \in {"sample", "full"}
        /\ r_path = "sample" <=> (LedgerHasListing /\ ~LedgerForces)

\* A second run samples: the ledger's last record holds the signature of
\* the listing and a full verification of less than 28 days ago.
C2_Witness ==
    /\ r_pc = "sample" /\ r_path = "sample" /\ r_runs = 2
    /\ LedgerHasListing /\ ~LedgerForces
    /\ sample_left # <<>>

\* C8: an exception raised while one entity is synchronized does not abort
\* the run, on either path: start never ends with the exception of an
\* entity, with sampled entities left unprocessed and no record appended.
C8_FailureIsolated ==
    ~(r_pc = "idle" /\ r_end = "entity_raised" /\ r_failed # {})

\* The tasks of the batch that are inside Card.sync.
InFlight == {c \in DOMAIN tasks : tasks[c] = "running"}

\* C9: at every moment of a FULL_SYNC run the number of entities inside
\* their Card.sync call is at most the configured limit, also when the
\* batch is larger than the limit.
C9_InFlightWithinLimit ==
    /\ Cardinality(InFlight) <= concurrent_operations
    /\ r_pc = "batch" => semaphore = concurrent_operations - Cardinality(InFlight)

\* A batch larger than the limit: the limit is reached and a task waits.
C9_Witness ==
    /\ r_pc = "batch"
    /\ Cardinality(DOMAIN tasks) > concurrent_operations
    /\ Cardinality(InFlight) = concurrent_operations
    /\ \E c \in DOMAIN tasks : tasks[c] = "waiting"

\* The place of a card in the listing and the batch that holds it.
Position(c) == CHOOSE k \in 1..Len(card_info) : card_info[k] = c
BatchIndex(c) == (Position(c) - 1) \div batch_size

\* C10: in FULL_SYNC the batches are consecutive slices of the listing in
\* listing order, and no entity of a batch starts to synchronize before
\* every entity of the batches before it has completed or failed.
C10_BatchBarrierAndOrder ==
    (r_path = "full" /\ InRun) =>
        /\ \A c \in r_started : \A d \in Range(card_info) :
             BatchIndex(d) < BatchIndex(c) => d \in r_finished
        /\ \A c \in DOMAIN tasks : \A d \in Range(card_info) :
             /\ BatchIndex(d) = BatchIndex(c) => d \in DOMAIN tasks
             /\ BatchIndex(d) < BatchIndex(c) => d \in r_finished
             /\ BatchIndex(d) > BatchIndex(c) => d \notin r_started

\* The second batch is under way after a card of the first has failed and
\* while a card of the second is inside Card.sync.
C10_Witness ==
    /\ r_pc = "batch" /\ r_path = "full" /\ r_i > 0
    /\ \E c \in r_failed : BatchIndex(c) = 0
    /\ \E c \in DOMAIN tasks : tasks[c] = "running" /\ BatchIndex(c) = 1

\* C11: every run that got past the fetch of the listing appends exactly
\* one record, on either path: when start ends, the log is the log of
\* before with one entry more, which holds the signature of the listing of
\* this run and, as its unchanged flag, TRUE on the sample path and the flag
\* of __get_card_info on the full path.
C11_OneRecordPerRun ==
    [][(InRun /\ r_pc' = "idle") =>
         /\ store'.kind = "dict"
         /\ Len(store'.log) = Len(store.log) + 1
         /\ SubSeq(store'.log, 1, Len(store.log)) = store.log
         /\ store'.log[Len(store'.log)].api_response_hash = api_response_hash
         /\ store'.log[Len(store'.log)].api_unchanged =
              (IF r_path = "sample" THEN TRUE ELSE api_unchanged)
         /\ get_last_api_hash(store') = sha256(card_info)]_vars

----------------------------------------------------------------------------
(* The operations of Meta, one after the other, on every kind of ledger file *)

\* Longest log of a ledger file of SpecLedger at its start, and number of
\* operations of a behaviour.
MaxLog == 2
MaxLedgerOps == 2

\* The entries of SpecLedger: a full run that verified every card, and a
\* run of before the signatures were recorded that stopped early; a later
\* run that verified every card, one that verified and stopped early, and
\* one that went through the listing without full-hash checks.
LedgerEntries ==
    {Entry(0, 3, 3, 1, sha256(<<1>>), FALSE, 3),
     Entry(1, 2, 3, 0, NoHash, FALSE, 0),
     Entry(1, 3, 3, 0, sha256(<<1>>), FALSE, 3),
     Entry(1, 2, 3, 1, sha256(<<1>>), FALSE, 2),
     Entry(1, 3, 3, 0, sha256(<<1>>), FALSE, 0)}

LedgerLogs == UNION {[1..n -> LedgerEntries] : n \in 0..MaxLog}

\* The checkpoints of SpecLedger: none, or one left by a run.
LedgerResumes == {NoResume, Resume(2, sha256(<<1>>))}

LedgerStores ==
    {AbsentStore, InvalidStore, ScalarStore}
      \cup {Store("object", r, <<>>) : r \in LedgerResumes}
      \cup {ListStore(l) : l \in LedgerLogs}
      \cup {DictStore(r, l) : r \in LedgerResumes, l \in LedgerLogs}

LedgerInit ==
    /\ store \in LedgerStores
    /\ now = 0
    /\ l_op = "none" /\ l_before = store /\ l_raised = FALSE
    /\ l_ret = ReturnedNone /\ l_ops = 0
    /\ VerifyIdle /\ ImageIdle /\ SyncIdle /\ ScheduleIdle /\ RunIdle

\* What every operation does to the bookkeeping of SpecLedger.
LedgerOp(op) ==
    /\ l_ops < MaxLedgerOps
    /\ l_ops' = l_ops + 1
    /\ l_op' = op
    /\ l_before' = store
    /\ UNCHANGED now
    /\ UNCHANGED metaRest

\* Meta(): __init__ runs _ensure_new_format.
LedgerConstruct ==
    /\ LedgerOp("init")
    /\ store' = ensure_new_format(store)
    /\ l_raised' = FALSE
    /\ l_ret' = ReturnedNone

LedgerGetLastApiHash ==
    /\ LedgerOp("get_last_api_hash")
    /\ store' = store
    /\ l_raised' = FALSE
    /\ l_ret' = Returned(get_last_api_hash(store), NoDate, NoResume)

LedgerGetLastFullVerificationDate ==
    /\ LedgerOp("get_last_full_verification_date")
    /\ store' = store
    /\ l_raised' = FALSE
    /\ l_ret' = Returned(NoHash, get_last_full_verification_date(store), NoResume)

LedgerGetResumeState ==
    /\ LedgerOp("get_resume_state")
    /\ store' = store
    /\ l_raised' = FALSE
    /\ l_ret' = Returned(NoHash, NoDate, get_resume_state(store))

LedgerSaveResumeState ==
    /\ LedgerOp("save_resume_state")
    /\ \E index \in {0, 2}, api_hash \in {sha256(<<1>>), sha256(<<2>>)} :
         store' = save_resume_state(store, index, api_hash)
    /\ l_raised' = FALSE
    /\ l_ret' = ReturnedNone

LedgerClearResumeState ==
    /\ LedgerOp("clear_resume_state")
    /\ store' = clear_resume_state(store)
    /\ l_raised' = FALSE
    /\ l_ret' = ReturnedNone

LedgerUpdate ==
    /\ LedgerOp("update")
    /\ \E entry \in LedgerEntries :
         LET u == update(store, entry)
         IN  /\ store' = u.store
             /\ l_raised' = u.raised
    /\ l_ret' = ReturnedNone

LedgerNext ==
    \/ LedgerConstruct \/ LedgerGetLastApiHash
    \/ LedgerGetLastFullVerificationDate \/ LedgerGetResumeState
    \/ LedgerSaveResumeState \/ LedgerClearResumeState \/ LedgerUpdate

SpecLedger == LedgerInit /\ [][LedgerNext]_vars

----------------------------------------------------------------------------
(* Claims about the Run Ledger, checked under SpecLedger *)

\* A ledger file that parses as an object or as the legacy array.
Readable(st) == st.kind \in {"dict", "list", "object"}

\* C12: the audit log is append-only.  On a readable file Meta.update
\* leaves every entry as it was and in its place, appends exactly one entry
\* and leaves the checkpoint as it was; save_resume_state and
\* clear_resume_state leave the log as it was.
C12_AppendOnly ==
    /\ (l_op = "update" /\ Readable(l_before)) =>
         /\ ~l_raised
         /\ store.kind = "dict"
         /\ Len(store.log) = Len(l_before.log) + 1
         /\ SubSeq(store.log, 1, Len(l_before.log)) = l_before.log
         /\ store.log[Len(store.log)] \in LedgerEntries
         /\ get_resume_state(store) = get_resume_state(l_before)
    /\ (l_op \in {"save_resume_state", "clear_resume_state"}) =>
         /\ store.log = l_before.log
         /\ Readable(l_before) => Readable(store)

\* An update of a ledger that held two entries and a live checkpoint.
C12_Witness ==
    /\ l_op = "update" /\ l_before.kind = "dict"
    /\ Len(l_before.log) = 2 /\ l_before.log[1] # l_before.log[2]
    /\ l_before.resume.set
    /\ Len(store.log) = 3

\* C13: Meta() turns a legacy array of N entries into {resume_state: null,
\* audit_log: the same N entries in the same order}; on a file already in
\* that form it changes nothing, and so does a second migration.
C13_MigrationKeepsEntries ==
    l_op = "init" =>
        /\ l_before.kind = "list" => store = DictStore(NoResume, l_before.log)
        /\ l_before.kind # "list" => store = l_before
        /\ ensure_new_format(store) = store

\* A legacy array of two different entries has been migrated.
C13_Witness ==
    /\ l_op = "init" /\ l_before.kind = "list"
    /\ Len(l_before.log) = 2 /\ l_before.log[1] # l_before.log[2]
    /\ store.kind = "dict" /\ Len(store.log) = 2

\* C22: get_last_full_verification_date returns the time of the most recent
\* entry with cards_processed = cards_found and full_hash_verifications > 0,
\* and none when no entry has both; entries of runs that stopped early or
\* made no full-hash check are passed over, also when they are more recent.
C22_LastCompleteVerification ==
    l_op = "get_last_full_verification_date" =>
        /\ ~l_raised
        /\ store = l_before
        /\ l_ret.date = IF FullRecords(l_before) = {} THEN NoDate
                        ELSE [found |-> TRUE,
                              time |-> LastFullRecord(l_before).triggered_time]

\* The record of a complete verification at time 0 is followed by the
\* record of a later run that verified and stopped early: time 0 is returned.
C22_Witness ==
    /\ l_op = "get_last_full_verification_date"
    /\ l_before.kind = "dict" /\ Len(l_before.log) = 2
    /\ l_before.log[1] = Entry(0, 3, 3, 1, sha256(<<1>>), FALSE, 3)
    /\ l_before.log[2] = Entry(1, 2, 3, 1, sha256(<<1>>), FALSE, 2)
    /\ l_ret.date = [found |-> TRUE, time |-> 0]

\* A file that is not JSON, or JSON that is neither an object nor an array.
Corrupt(st) == st.kind \in {"invalid", "scalar"}

\* C14: on a corrupt file no operation of Meta raises, the reads return
\* none, and update starts the history anew with the entry of the run.
C14_CorruptIsEmptyHistory ==
    (l_op # "none" /\ Corrupt(l_before)) =>
        /\ ~l_raised
        /\ l_ret = ReturnedNone
        /\ l_op = "update" => (store.kind = "dict" /\ Len(store.log) = 1)

----------------------------------------------------------------------------
(* One run of DownloadSession.start on ledgers that hold a checkpoint, and  *)
(* with targets from none to two: the steps are those of Spec.              *)

\* The ledger files of SpecRun: a scalar; a checkpoint and no record; a
\* checkpoint and the record of a full verification of the listing
\* <<1, 2, 3>> made at time 0.
RunStores ==
    {ScalarStore,
     DictStore(Resume(2, sha256(<<1, 2, 3>>)), <<>>),
     DictStore(Resume(2, sha256(<<1, 2, 3>>)),
               <<Entry(0, 3, 3, 0, sha256(<<1, 2, 3>>), FALSE, 3)>>)}

\* The targets of SpecRun (download_count), with batches of two.
RunTargets == {NotSet, 0, 1, 2}

RunInit ==
    /\ store \in RunStores
    /\ now = 0
    /\ catalog = <<1, 2, 3>>
    /\ settings \in {Setting(2, 2, d) : d \in RunTargets}
    /\ r_pc = "idle" /\ card_info = <<>> /\ api_response_hash = NoHash
    /\ api_unchanged = FALSE /\ r_force = FALSE /\ start_time = 0
    /\ sample_left = <<>> /\ sync_force = <<>>
    /\ r_i = 0 /\ tasks = <<>> /\ semaphore = 0
    /\ updated_cards = <<>> /\ total_processed = 0 /\ full_hash_checks = 0
    /\ r_runs = MaxRuns - 1 /\ r_path = "none" /\ r_end = "none"
    /\ r_started = {} /\ r_finished = {} /\ r_failed = {}
    /\ VerifyIdle /\ ImageIdle /\ SyncIdle /\ ScheduleIdle /\ MetaIdle

SpecRun == RunInit /\ [][Next]_vars

----------------------------------------------------------------------------
(* One run on listings around the sizes where the size of the sample       *)
(* changes: fewer cards than the least sample, a few more, and enough for   *)
(* five per cent to exceed it.  The ledger holds the record of a complete   *)
(* verification of the listing, dated one unit ahead of the clock (the      *)
(* clock was set back since), so that no step of the clock makes it 28 days *)
(* old: the run samples unless the listing changes first, and then it goes  *)
(* through one of the short listings.  The steps are those of Spec.         *)

Listing(n) == [k \in 1..n |-> k]

SampleListings ==
    {Listing(MinSample - 1), Listing(MinSample + 1),
     Listing(((MinSample + 2) * 100) \div SamplePercent)}

SampleInit ==
    /\ catalog \in SampleListings
    /\ store = DictStore(NoResume,
                         <<Entry(1, Len(catalog), Len(catalog), 0,
                                 sha256(catalog), FALSE, Len(catalog))>>)
    /\ now = 0
    /\ settings = Setting(2, 1, 1)
    /\ r_pc = "idle" /\ card_info = <<>> /\ api_response_hash = NoHash
    /\ api_unchanged = FALSE /\ r_force = FALSE /\ start_time = 0
    /\ sample_left = <<>> /\ sync_force = <<>>
    /\ r_i = 0 /\ tasks = <<>> /\ semaphore = 0
    /\ updated_cards = <<>> /\ total_processed = 0 /\ full_hash_checks = 0
    /\ r_runs = MaxRuns - 1 /\ r_path = "none" /\ r_end = "none"
    /\ r_started = {} /\ r_finished = {} /\ r_failed = {}
    /\ VerifyIdle /\ ImageIdle /\ SyncIdle /\ ScheduleIdle /\ MetaIdle

SpecSample == SampleInit /\ [][Next]_vars

\* C24: SAMPLE_VERIFY synchronizes min(max(floor(5% of the listing), 10),
\* length of the listing) different cards of the listing, one at a time, and
\* hands force_full_check = TRUE to each call of Card.sync.
C24_SampleSequentialForced ==
    r_pc = "sample" =>
        /\ Cardinality(DOMAIN sync_force) <= 1
        /\ \A c \in DOMAIN sync_force : sync_force[c] = TRUE
        /\ DOMAIN sync_force = r_started \ r_finished
        /\ r_started \subseteq Range(card_info)
        /\ Range(sample_left) \subseteq Range(card_info) \ r_started
        /\ Cardinality(Range(sample_left)) = Len(sample_left)
        /\ Cardinality(r_started) + Len(sample_left) =
             Min(Max((Len(card_info) * SamplePercent) \div 100, MinSample),
                 Len(card_info))

\* The sample of a listing large enough for five per cent to exceed the
\* least sample has been synchronized to its last card.
C24_Witness ==
    /\ r_pc = "sample" /\ sample_left = <<>> /\ DOMAIN sync_force = {}
    /\ (Len(card_info) * SamplePercent) \div 100 > MinSample
    /\ Cardinality(r_finished) = (Len(card_info) * SamplePercent) \div 100
    /\ Len(updated_cards) > 0

\* C25: the record of a run holds, as cards_processed, the number of cards
\* the run handed to Card.sync, which is never more than cards_found, on the
\* sample path and on the full path and for every length of the listing.
C25_ProcessedIsHandedOver ==
    [][(InRun /\ r_pc' = "idle" /\ r_end' = "recorded") =>
         /\ store'.log[Len(store'.log)].cards_processed = Cardinality(r_started)
         /\ store'.log[Len(store'.log)].cards_processed
              <= store'.log[Len(store'.log)].cards_found]_vars

----------------------------------------------------------------------------
(* Claims about the checkpoint and the early stop *)

\* C15: during a FULL_SYNC run, after each processed batch the checkpoint
\* of the ledger holds the index of the last processed card and the
\* signature of the listing of this run.
C15_CheckpointAfterEachBatch ==
    (r_path = "full" /\ InRun /\ total_processed > 0) =>
        /\ get_resume_state(store).set
        /\ get_resume_state(store).last_processed_index = total_processed
        /\ get_resume_state(store).api_hash_at_resume = api_response_hash

\* C16: after a run that completed (on an unchanged listing, on a changed
\* one, or with full verification forced) the ledger holds no checkpoint,
\* also when it held one as the run began.
C16_CheckpointCleared ==
    (r_pc = "idle" /\ r_end = "recorded") => ~get_resume_state(store).set

\* The last record of the ledger is that of a full sync that stopped before
\* the end of the listing (a sampled run records api_unchanged = TRUE).
LastRecord == store.log[Len(store.log)]
LastRunStoppedEarly ==
    /\ store.kind = "dict" /\ Len(store.log) > 0
    /\ ~LastRecord.api_unchanged
    /\ LastRecord.cards_processed < LastRecord.cards_found

\* C17: a run that follows a full sync stopped before the end of the
\* listing, against the same listing, resumes the full sync after the last
\* processed index: it synchronizes no card at or before that index.
C17_ResumesAfterLastIndex ==
    (InRun /\ LastRunStoppedEarly /\ LedgerHasListing) =>
        /\ r_path = "full"
        /\ \A c \in r_started : Position(c) > LastRecord.cards_processed

\* The target of the run, when the settings hold one.
TargetSet == settings.download_count # NotSet

\* The whole listing has been synchronized, each card in one batch.
WholeListingOnce ==
    /\ r_started = Range(card_info) /\ r_finished = Range(card_info)
    /\ total_processed = card_count

\* C18 as stated: with a target T the run starts no batch once the updated
\* cards are T or more, T = 0 included, and records fewer than T +
\* batch_size updates; with no target it goes through the whole listing.
C18_NoBatchOnceTargetReached ==
    /\ (r_pc = "batch" /\ TargetSet) =>
         Len(updated_cards) < settings.download_count
    /\ (r_pc = "record" /\ TargetSet) =>
         Len(updated_cards) < settings.download_count + batch_size
    /\ (r_pc = "record" /\ ~TargetSet) => WholeListingOnce

\* C18 amended: the first batch is always processed; with a target T no
\* batch after the first starts once the updated cards are T or more, and
\* the run records at most max(T - 1, 0) + batch_size updates; with no
\* target it goes through the whole listing.
C18_NoLaterBatchOnceTargetReached ==
    /\ (r_pc = "batch" /\ TargetSet /\ r_i > 0) =>
         Len(updated_cards) < settings.download_count
    /\ (r_pc = "record" /\ TargetSet) =>
         /\ total_processed >= Min(batch_size, card_count)
         /\ Len(updated_cards) <=
              Max(settings.download_count - 1, 0) + batch_size
    /\ (r_pc = "record" /\ ~TargetSet) => WholeListingOnce

\* A run with target 0 has stopped after its first batch, in which every
\* card was updated, before the end of the listing.
C18_Witness ==
    /\ r_pc = "record" /\ settings.download_count = 0
    /\ Len(updated_cards) = batch_size
    /\ total_processed = batch_size /\ total_processed < card_count

----------------------------------------------------------------------------
(* Claims about the metadata files, checked under SpecSync *)

\* C19: once the metadata sync of a call has returned, the file at the path
\* of every identity i of the entity holds the payload of the call with i
\* in its id field.
C19_IdentitySubstituted ==
    (s_pc = "running" /\ s_info \in {"true", "false"}) =>
        \A i \in s_ids : m_info[i] = File(JsonText(<<i, s_json[2]>>))

\* The case of C20: a call has ended before which, and after the call
\* before it, one signature file of the intact mirror was removed, the
\* remote staying as it was to this moment.
C20_Case ==
    /\ s_pc = "idle" /\ s_removed # NoRemoval
    /\ s_removed.at = s_calls - 1
    /\ s_prev.quiet /\ s_quiet

\* What C20 says of the call: the artifact of the removed signature file,
\* and no other, was fetched in full and rewritten with its signature, no
\* metadata file was written, and the call reported an update.
C20_OnlyThatArtifact ==
    /\ s_ret = "true"
    /\ s_fetched = {s_removed.artifact} /\ s_written = {s_removed.artifact}
    /\ s_info = "false"
    /\ m_img[s_removed.artifact] = File(s_remote[s_removed.artifact])
    /\ m_hash[s_removed.artifact] = File(sha256(s_remote[s_removed.artifact]))

----------------------------------------------------------------------------
(* Claims about damaged files of the mirror, checked under SpecDamage *)

\* A metadata file that json.load can read.
InfoSound(f) == f.state = "ok" /\ Parsable(f.data)

\* A signature file that holds a digest.
SignatureSound(f) ==
    f.state = "ok" /\ Len(f.data) > 0 /\ f.data[1] = sha256(<<>>)[1]

\* C21: a damaged metadata or signature file is taken as absent.  The call
\* of sync that finds it does not raise, and once it has ended (its range
\* requests honoured, its downloads succeeding, the remote as it was) every
\* metadata file and every signature file of the entity is sound again.
C21_DamageRepairedInSameSync ==
    (/\ s_pc = "idle" /\ s_calls = MaxSyncCalls
     /\ s_dlOk /\ s_rangeOk /\ s_quiet /\ s_prev.quiet)
        => /\ s_ret # "raised"
           /\ \A i \in s_ids : InfoSound(m_info[i])
           /\ \A a \in s_ids \X Roles : SignatureSound(m_hash[a])

====
